---- MODULE Spec2Model ----
(***************************************************************************)
(* Session-security layer of the backend: the JWT token engine (jwt.rs),   *)
(* the auth endpoints login / refresh / logout (auth.rs), the CSRF         *)
(* double-submit middleware (csrf.rs) and the router assembled in main.rs. *)
(*                                                                         *)
(* Strings that the code inspects byte by byte (header values, CSRF        *)
(* tokens) are sequences of byte values.  A signed token string is the     *)
(* record of its three JWT parts; its signature is the pair (key, signed   *)
(* content), i.e. a MAC that only the holder of the key can produce.       *)
(***************************************************************************)
EXTENDS Integers, Sequences, FiniteSets, TLC

VARIABLES
    now,               \* wall clock, Unix seconds (Utc::now())
    ticks,             \* number of clock advances so far
    rng,               \* number of values drawn from the random generator
    issued,            \* issuance events of the token engine, in the wild
    last,              \* the last operation: its request and its response
    logged_out,        \* whether a logout has been served
    JWT_SECRET,        \* process environment variable JWT_SECRET
    ENVIRONMENT,       \* process environment variable ENVIRONMENT
    debug_assertions,  \* build profile: cfg!(debug_assertions)
    db_pool,           \* AppState.db_pool: the connection pool, if there is one
    database_required, \* AppState.config.database_required
    users_table        \* users::table: the rows of the users table, by id

vars == <<now, ticks, rng, issued, last, logged_out, JWT_SECRET, ENVIRONMENT, debug_assertions,
          db_pool, database_required, users_table>>

----------------------------------------------------------------------------
(* Bounds of the model *)

MaxTicks == 2
MaxUuid == 3

----------------------------------------------------------------------------
(* Option and Result values *)

None == [none |-> TRUE]
Some(x) == [some |-> x]
IsSome(o) == "some" \in DOMAIN o
IsNone(o) == "none" \in DOMAIN o

Ok(x) == [ok |-> x]
Err(kind, msg) == [err |-> kind, msg |-> msg]
Panicked == [panic |-> TRUE]
IsOk(r) == "ok" \in DOMAIN r
IsErr(r) == "err" \in DOMAIN r
IsPanic(r) == "panic" \in DOMAIN r

----------------------------------------------------------------------------
(* Strings as byte sequences *)

Str(bytes) == [str |-> bytes]
Tok(jwt) == [tok |-> jwt]
IsStr(v) == "str" \in DOMAIN v
IsTok(v) == "tok" \in DOMAIN v

EmptyString == Str(<<>>)

\* str::is_empty
is_empty(v) == IsStr(v) /\ Len(v.str) = 0

\* "native", "Native", "NATIVE", "web" as ASCII
S_native == <<110, 97, 116, 105, 118, 101>>
S_Native == <<78, 97, 116, 105, 118, 101>>
S_NATIVE == <<78, 65, 84, 73, 86, 69>>
S_web == <<119, 101, 98>>
S_production == <<112, 114, 111, 100, 117, 99, 116, 105, 111, 110>>
S_Production == <<80, 114, 111, 100, 117, 99, 116, 105, 111, 110>>
S_prod == <<112, 114, 111, 100>>

\* char::to_lowercase on an ASCII byte
LowerByte(b) == IF b >= 65 /\ b <= 90 THEN b + 32 ELSE b

\* str::to_lowercase
to_lowercase(s) == [i \in DOMAIN s |-> LowerByte(s[i])]

\* A header value: visible ASCII bytes, or opaque bytes for which
\* HeaderValue::to_str fails.
Opaque == [opaque |-> TRUE]
to_str(hv) == IF "opaque" \in DOMAIN hv THEN Err("ToStrError", "") ELSE Ok(hv.str)
unwrap_or(r, d) == IF IsOk(r) THEN r.ok ELSE d

----------------------------------------------------------------------------
(* jwt.rs: configuration *)

DEV_SECRET == "DEVELOPMENT_ONLY_SECRET_CHANGE_IN_PRODUCTION_32bytes"

ACCESS_TOKEN_DURATION_MINUTES == 15
REFRESH_TOKEN_DURATION_DAYS == 7

\* Duration::minutes / Duration::days, in seconds
DurationMinutes(m) == m * 60
DurationDays(d) == d * 86400

\* Validation::default(): HS256 only, exp validated with a leeway of 60 s
DefaultLeeway == 60
DefaultAlgorithm == "HS256"

get_jwt_secret ==
    IF IsSome(JWT_SECRET) THEN Ok(JWT_SECRET.some)
    ELSE IF debug_assertions THEN Ok(DEV_SECRET)
    ELSE Panicked

----------------------------------------------------------------------------
(* jwt.rs: claims *)

\* i64::to_string for a non-negative id, most significant digit first
RECURSIVE Digits(_)
Digits(n) == IF n < 10 THEN <<n>> ELSE Append(Digits(n \div 10), n % 10)

\* str::parse::<i64> of a digit sequence; an empty or non-digit string fails
RECURSIVE ParseDigits(_, _)
ParseDigits(ds, acc) ==
    IF ds = <<>> THEN Ok(acc)
    ELSE IF Head(ds) \notin 0..9 THEN Err("ParseIntError", "")
    ELSE ParseDigits(Tail(ds), acc * 10 + Head(ds))

ParseI64(ds) == IF ds = <<>> THEN Err("ParseIntError", "") ELSE ParseDigits(ds, 0)

\* variant: access claims carrying a fixed token_id instead of a fresh UUID
new_access_FixedTokenId(user_id, email, uuid) ==
    [sub |-> Digits(user_id),
     email |-> email,
     token_type |-> "access",
     exp |-> now + DurationMinutes(ACCESS_TOKEN_DURATION_MINUTES),
     iat |-> now,
     jti |-> 0]

new_access(user_id, email, uuid) ==
    [sub |-> Digits(user_id),
     email |-> email,
     token_type |-> "access",
     exp |-> now + DurationMinutes(ACCESS_TOKEN_DURATION_MINUTES),
     iat |-> now,
     jti |-> uuid]

\* variant: the refresh lifetime taken in minutes instead of days
new_refresh_DaysAsMinutes(user_id, email, uuid) ==
    [sub |-> Digits(user_id),
     email |-> email,
     token_type |-> "refresh",
     exp |-> now + DurationMinutes(REFRESH_TOKEN_DURATION_DAYS),
     iat |-> now,
     jti |-> uuid]

new_refresh(user_id, email, uuid) ==
    [sub |-> Digits(user_id),
     email |-> email,
     token_type |-> "refresh",
     exp |-> now + DurationDays(REFRESH_TOKEN_DURATION_DAYS),
     iat |-> now,
     jti |-> uuid]

\* variant: the subject read as the demo user, whatever the claims say
user_id_AlwaysDemo(claims) == Ok(1)

user_id(claims) ==
    IF IsOk(ParseI64(claims.sub)) THEN ParseI64(claims.sub)
    ELSE Err("Unauthorized", "Invalid token subject")

\* variant: is_refresh_token satisfied by either token type
is_refresh_token_AnyType(claims) == claims.token_type \in {"access", "refresh"}

is_access_token(claims) == claims.token_type = "access"
is_refresh_token(claims) == claims.token_type = "refresh"

----------------------------------------------------------------------------
(* jsonwebtoken encode / decode as used by jwt.rs *)

\* HMAC over header and payload: reproducible only with the same key
Mac(key, alg, claims) == [key |-> key, alg |-> alg, claims |-> claims]

\* encode(&Header::default(), &claims, &EncodingKey::from_secret(secret))
encode(claims, secret) ==
    Tok([alg |-> DefaultAlgorithm, claims |-> claims,
         sig |-> Mac(secret, DefaultAlgorithm, claims)])

\* number of '.' separators in a plain string
RECURSIVE Dots(_)
Dots(s) == IF s = <<>> THEN 0 ELSE (IF Head(s) = 46 THEN 1 ELSE 0) + Dots(Tail(s))

\* variant: decode that skips the signature comparison
decode_NoSignatureCheck(token, secret) ==
    IF IsStr(token) THEN
        (IF Dots(token.str) = 2 THEN Err("Base64", "") ELSE Err("InvalidToken", ""))
    ELSE IF token.tok.alg # DefaultAlgorithm THEN Err("InvalidAlgorithm", "")
    ELSE IF token.tok.claims.exp < now - DefaultLeeway THEN Err("ExpiredSignature", "")
    ELSE Ok(token.tok.claims)

\* decode(token, &DecodingKey::from_secret(secret), &Validation::default()):
\* structure, then algorithm, then signature, and only then the expiry claim
\* variant: expiry validated with no leeway
decode_NoLeeway(token, secret) ==
    IF IsStr(token) THEN
        (IF Dots(token.str) = 2 THEN Err("Base64", "") ELSE Err("InvalidToken", ""))
    ELSE IF token.tok.alg # DefaultAlgorithm THEN Err("InvalidAlgorithm", "")
    ELSE IF token.tok.sig # Mac(secret, token.tok.alg, token.tok.claims)
        THEN Err("InvalidSignature", "")
    ELSE IF token.tok.claims.exp < now THEN Err("ExpiredSignature", "")
    ELSE Ok(token.tok.claims)

decode(token, secret) ==
    IF IsStr(token) THEN
        (IF Dots(token.str) = 2 THEN Err("Base64", "") ELSE Err("InvalidToken", ""))
    ELSE IF token.tok.alg # DefaultAlgorithm THEN Err("InvalidAlgorithm", "")
    ELSE IF token.tok.sig # Mac(secret, token.tok.alg, token.tok.claims)
        THEN Err("InvalidSignature", "")
    ELSE IF token.tok.claims.exp < now - DefaultLeeway THEN Err("ExpiredSignature", "")
    ELSE Ok(token.tok.claims)

----------------------------------------------------------------------------
(* jwt.rs: token generation *)

\* variant: generate_token_pair reporting the lifetime in minutes
generate_token_pair_ExpiresInMinutes(uid, email, uuid1, uuid2) ==
    IF IsPanic(get_jwt_secret) THEN Panicked
    ELSE Ok([access_token |-> encode(new_access(uid, email, uuid1), get_jwt_secret.ok),
             refresh_token |-> encode(new_refresh(uid, email, uuid2), get_jwt_secret.ok),
             expires_in |-> ACCESS_TOKEN_DURATION_MINUTES])

generate_token_pair(uid, email, uuid1, uuid2) ==
    IF IsPanic(get_jwt_secret) THEN Panicked
    ELSE Ok([access_token |-> encode(new_access(uid, email, uuid1), get_jwt_secret.ok),
             refresh_token |-> encode(new_refresh(uid, email, uuid2), get_jwt_secret.ok),
             expires_in |-> ACCESS_TOKEN_DURATION_MINUTES * 60])

\* variant: generate_access_token built on Claims::new_refresh
generate_access_token_MintsRefresh(uid, email, uuid) ==
    IF IsPanic(get_jwt_secret) THEN Panicked
    ELSE Ok(encode(new_refresh(uid, email, uuid), get_jwt_secret.ok))

generate_access_token(uid, email, uuid) ==
    IF IsPanic(get_jwt_secret) THEN Panicked
    ELSE Ok(encode(new_access(uid, email, uuid), get_jwt_secret.ok))

----------------------------------------------------------------------------
(* jwt.rs: token validation *)

\* variant: validate_token that accepts only the tokens of the latest issuance
validate_token_LatestSessionOnly(token) ==
    IF IsPanic(get_jwt_secret) THEN Panicked
    ELSE LET d == decode(token, get_jwt_secret.ok) IN
        IF IsOk(d) THEN (IF d.ok.jti + 1 < rng
                            THEN Err("Unauthorized", "Token superseded") ELSE d)
        ELSE IF d.err = "ExpiredSignature" THEN Err("Unauthorized", "Token expired")
        ELSE IF d.err = "InvalidToken" THEN Err("Unauthorized", "Invalid token")
        ELSE Err("Unauthorized", "Token validation failed")

\* variant: validate_token that refuses every token once a logout was served
validate_token_RevokedByLogout(token) ==
    IF IsPanic(get_jwt_secret) THEN Panicked
    ELSE IF logged_out THEN Err("Unauthorized", "Token revoked")
    ELSE LET d == decode(token, get_jwt_secret.ok) IN
        IF IsOk(d) THEN d
        ELSE IF d.err = "ExpiredSignature" THEN Err("Unauthorized", "Token expired")
        ELSE IF d.err = "InvalidToken" THEN Err("Unauthorized", "Invalid token")
        ELSE Err("Unauthorized", "Token validation failed")

validate_token(token) ==
    IF IsPanic(get_jwt_secret) THEN Panicked
    ELSE LET d == decode(token, get_jwt_secret.ok) IN
        IF IsOk(d) THEN d
        ELSE IF d.err = "ExpiredSignature" THEN Err("Unauthorized", "Token expired")
        ELSE IF d.err = "InvalidToken" THEN Err("Unauthorized", "Invalid token")
        ELSE Err("Unauthorized", "Token validation failed")

\* variant: validate_access_token without the token_type check
validate_access_token_NoTypeCheck(token) == validate_token(token)

validate_access_token(token) ==
    LET r == validate_token(token) IN
    IF ~IsOk(r) THEN r
    ELSE IF ~is_access_token(r.ok) THEN Err("Unauthorized", "Invalid token type")
    ELSE r

\* variant: validate_refresh_token that looks at the payload's token_type
\* before the token is verified
validate_refresh_token_TypeFirst(token) ==
    IF IsTok(token) /\ ~is_refresh_token(token.tok.claims)
        THEN Err("Unauthorized", "Invalid token type")
    ELSE validate_token(token)

validate_refresh_token(token) ==
    LET r == validate_token(token) IN
    IF ~IsOk(r) THEN r
    ELSE IF ~is_refresh_token(r.ok) THEN Err("Unauthorized", "Invalid token type")
    ELSE r

----------------------------------------------------------------------------
(* csrf.rs *)

CSRF_COOKIE_NAME == "csrf_token"

CSRF_TOKEN_LENGTH == 32

\* hex::encode: two lower-case hexadecimal characters per byte
HexChar(d) == IF d < 10 THEN 48 + d ELSE 87 + d

RECURSIVE hex_encode(_)
hex_encode(bytes) ==
    IF bytes = <<>> THEN <<>>
    ELSE <<HexChar(Head(bytes) \div 16), HexChar(Head(bytes) % 16)>>
            \o hex_encode(Tail(bytes))

\* generate_csrf_token on the CSRF_TOKEN_LENGTH bytes that rng.gen() yields
generate_csrf_token(random) ==
    Str(hex_encode([i \in 1..CSRF_TOKEN_LENGTH |-> random[i]]))

\* variant: the CSRF cookie marked HttpOnly like the auth cookies
build_csrf_cookie_HttpOnly(token) ==
    [name |-> CSRF_COOKIE_NAME,
     value |-> token,
     HttpOnly |-> TRUE,
     SameSite |-> "Lax",
     Path |-> "/",
     Secure |-> IF IsNone(ENVIRONMENT) THEN FALSE
                ELSE \/ to_lowercase(ENVIRONMENT.some) = S_production
                     \/ to_lowercase(ENVIRONMENT.some) = S_prod]

build_csrf_cookie(token) ==
    [name |-> CSRF_COOKIE_NAME,
     value |-> token,
     HttpOnly |-> FALSE,
     SameSite |-> "Lax",
     Path |-> "/",
     Secure |-> IF IsNone(ENVIRONMENT) THEN FALSE
                ELSE \/ to_lowercase(ENVIRONMENT.some) = S_production
                     \/ to_lowercase(ENVIRONMENT.some) = S_prod]

\* variant: the safe methods without OPTIONS
SafeMethods_NoOptions == {"GET", "HEAD"}

SafeMethods == {"GET", "HEAD", "OPTIONS"}

\* bitwise exclusive or of two bytes (u8 ^ u8)
RECURSIVE Xor(_, _)
Xor(x, y) ==
    IF x = 0 /\ y = 0 THEN 0
    ELSE (IF (x % 2) # (y % 2) THEN 1 ELSE 0) + 2 * Xor(x \div 2, y \div 2)

\* bitwise or of two bytes (u8 | u8)
RECURSIVE BitOr(_, _)
BitOr(x, y) ==
    IF x = 0 /\ y = 0 THEN 0
    ELSE (IF (x % 2) = 1 \/ (y % 2) = 1 THEN 1 ELSE 0) + 2 * BitOr(x \div 2, y \div 2)

\* variant: the loop assigning result = x ^ y instead of result |= x ^ y
RECURSIVE XorAccumulate_Overwrite(_, _, _)
XorAccumulate_Overwrite(a, b, result) ==
    IF a = <<>> \/ b = <<>> THEN result
    ELSE XorAccumulate_Overwrite(Tail(a), Tail(b), Xor(Head(a), Head(b)))

\* the loop of constant_time_eq: result |= x ^ y over the zipped bytes
RECURSIVE XorAccumulate(_, _, _)
XorAccumulate(a, b, result) ==
    IF a = <<>> \/ b = <<>> THEN result
    ELSE XorAccumulate(Tail(a), Tail(b), BitOr(result, Xor(Head(a), Head(b))))

\* variant: constant_time_eq without the length comparison
constant_time_eq_NoLengthCheck(a, b) == XorAccumulate(a, b, 0) = 0

constant_time_eq(a, b) ==
    IF Len(a) # Len(b) THEN FALSE
    ELSE XorAccumulate(a, b, 0) = 0

\* The Cookie header split on ';', each piece trimmed and matched against
\* "<name>=": the first cookie of that name with a non-empty value.
RECURSIVE FirstCookie(_, _)
FirstCookie(pairs, name) ==
    IF pairs = <<>> THEN None
    ELSE IF Head(pairs).name = name /\ ~is_empty(Head(pairs).value)
        THEN Some(Head(pairs).value)
    ELSE FirstCookie(Tail(pairs), name)

extract_csrf_from_cookie(headers) ==
    IF IsNone(headers.cookie) THEN None
    ELSE IF ~IsOk(to_str(headers.cookie.some)) THEN None
    ELSE FirstCookie(to_str(headers.cookie.some).ok, CSRF_COOKIE_NAME)

\* headers.get(name).and_then(|v| v.to_str().ok())
HeaderText(h) ==
    IF IsNone(h) THEN None
    ELSE IF ~IsOk(to_str(h.some)) THEN None
    ELSE Some(to_str(h.some).ok)

\* variant: the native exemption comparing without to_lowercase
CsrfNativeExempt_CaseSensitive(headers) ==
    /\ IsSome(headers.x_client_type)
    /\ unwrap_or(to_str(headers.x_client_type.some), <<>>) = S_native

CsrfNativeExempt(headers) ==
    /\ IsSome(headers.x_client_type)
    /\ to_lowercase(unwrap_or(to_str(headers.x_client_type.some), <<>>)) = S_native

Proceed == [next |-> TRUE]
Forbidden(msg) == [status |-> 403, error |-> msg]

\* variant: the exemption granted to every request carrying X-Client-Type
csrf_middleware_ExemptAnyClientType(method, headers) ==
    IF method \in SafeMethods THEN Proceed
    ELSE IF IsSome(headers.x_client_type) THEN Proceed
    ELSE LET cookie_token == extract_csrf_from_cookie(headers)
             header_token == HeaderText(headers.x_csrf_token)
         IN IF /\ IsSome(cookie_token) /\ IsSome(header_token)
               /\ constant_time_eq(cookie_token.some.str, header_token.some)
            THEN Proceed
            ELSE IF IsNone(cookie_token)
                THEN Forbidden("CSRF token missing. Fetch /api/v1/csrf first.")
            ELSE Forbidden("CSRF token invalid")

\* csrf_middleware: Proceed when the inner service is run, else the 403 response
csrf_middleware(method, headers) ==
    IF method \in SafeMethods THEN Proceed
    ELSE IF CsrfNativeExempt(headers) THEN Proceed
    ELSE LET cookie_token == extract_csrf_from_cookie(headers)
             header_token == HeaderText(headers.x_csrf_token)
         IN IF /\ IsSome(cookie_token) /\ IsSome(header_token)
               /\ constant_time_eq(cookie_token.some.str, header_token.some)
            THEN Proceed
            ELSE IF IsNone(cookie_token)
                THEN Forbidden("CSRF token missing. Fetch /api/v1/csrf first.")
            ELSE Forbidden("CSRF token invalid")

----------------------------------------------------------------------------
(* auth.rs: cookies *)

ACCESS_TOKEN_COOKIE_NAME == "access_token"
REFRESH_TOKEN_COOKIE_NAME == "refresh_token"
ACCESS_TOKEN_MAX_AGE_SECONDS == 900
REFRESH_TOKEN_MAX_AGE_SECONDS == 604800

is_production ==
    IF IsNone(ENVIRONMENT) THEN FALSE
    ELSE \/ to_lowercase(ENVIRONMENT.some) = S_production
         \/ to_lowercase(ENVIRONMENT.some) = S_prod

\* variant: build_auth_cookie writing under the refresh cookie's name
build_auth_cookie_RefreshName(token, clear) ==
    [name |-> REFRESH_TOKEN_COOKIE_NAME,
     value |-> token,
     HttpOnly |-> TRUE,
     SameSite |-> "Lax",
     Path |-> "/",
     MaxAge |-> IF clear THEN 0 ELSE ACCESS_TOKEN_MAX_AGE_SECONDS,
     Secure |-> is_production]

build_auth_cookie(token, clear) ==
    [name |-> ACCESS_TOKEN_COOKIE_NAME,
     value |-> token,
     HttpOnly |-> TRUE,
     SameSite |-> "Lax",
     Path |-> "/",
     MaxAge |-> IF clear THEN 0 ELSE ACCESS_TOKEN_MAX_AGE_SECONDS,
     Secure |-> is_production]

\* variant: the refresh cookie scoped to the whole site
build_refresh_cookie_RootPath(token, clear) ==
    [name |-> REFRESH_TOKEN_COOKIE_NAME,
     value |-> token,
     HttpOnly |-> TRUE,
     SameSite |-> "Lax",
     Path |-> "/",
     MaxAge |-> IF clear THEN 0 ELSE REFRESH_TOKEN_MAX_AGE_SECONDS,
     Secure |-> is_production]

build_refresh_cookie(token, clear) ==
    [name |-> REFRESH_TOKEN_COOKIE_NAME,
     value |-> token,
     HttpOnly |-> TRUE,
     SameSite |-> "Lax",
     Path |-> "/api/v1/auth",
     MaxAge |-> IF clear THEN 0 ELSE REFRESH_TOKEN_MAX_AGE_SECONDS,
     Secure |-> is_production]

extract_refresh_token_from_cookie(headers) ==
    IF IsNone(headers.cookie) THEN None
    ELSE IF ~IsOk(to_str(headers.cookie.some)) THEN None
    ELSE FirstCookie(to_str(headers.cookie.some).ok, REFRESH_TOKEN_COOKIE_NAME)

\* variant: the X-Client-Type test of login comparing without to_lowercase
is_native_client_CaseSensitive(headers) ==
    IF IsNone(headers.x_client_type) THEN FALSE
    ELSE unwrap_or(to_str(headers.x_client_type.some), <<>>) = S_native

\* the X-Client-Type test of login
is_native_client(headers) ==
    IF IsNone(headers.x_client_type) THEN FALSE
    ELSE to_lowercase(unwrap_or(to_str(headers.x_client_type.some), <<>>)) = S_native

\* "Bearer "
S_BearerPrefix == <<66, 101, 97, 114, 101, 114, 32>>

\* str::strip_prefix
strip_prefix(s, prefix) ==
    IF Len(s) >= Len(prefix) /\ SubSeq(s, 1, Len(prefix)) = prefix
        THEN Some(SubSeq(s, Len(prefix) + 1, Len(s)))
    ELSE None

\* the Authorization header's token: Some when the value reads "Bearer ..."
BearerOf(headers) ==
    IF IsNone(headers.authorization) THEN None
    ELSE IF ~IsOk(to_str(headers.authorization.some)) THEN None
    ELSE strip_prefix(to_str(headers.authorization.some).ok, S_BearerPrefix)

\* the access_token cookie's value
AccessCookieOf(headers) ==
    IF IsNone(headers.cookie) THEN None
    ELSE IF ~IsOk(to_str(headers.cookie.some)) THEN None
    ELSE FirstCookie(to_str(headers.cookie.some).ok, ACCESS_TOKEN_COOKIE_NAME)

\* variant: extract_token_from_request looking at the cookie first
extract_token_from_request_CookieFirst(headers) ==
    IF IsSome(AccessCookieOf(headers)) THEN AccessCookieOf(headers)
    ELSE IF IsSome(BearerOf(headers)) THEN Some(Str(BearerOf(headers).some))
    ELSE None

extract_token_from_request(headers) ==
    IF IsSome(BearerOf(headers)) THEN Some(Str(BearerOf(headers).some))
    ELSE AccessCookieOf(headers)

----------------------------------------------------------------------------
(* auth.rs: handlers.  A handler yields its response, the issuance events   *)
(* of the token engine it caused and the number of UUIDs it drew.           *)

\* HeaderMap::insert: the value replaces every value the name already has
HeaderMapInsert(headers, name, value) ==
    SelectSeq(headers, LAMBDA h : h.name # name) \o <<[name |-> name, value |-> value]>>

\* a header array [(K, V); N] turned into response parts: each pair is put
\* into the response's header map with HeaderMap::insert, in order
RECURSIVE IntoResponseParts(_, _)
IntoResponseParts(pairs, headers) ==
    IF pairs = <<>> THEN headers
    ELSE IntoResponseParts(Tail(pairs),
                           HeaderMapInsert(headers, Head(pairs)[1], Head(pairs)[2]))

SET_COOKIE == "set-cookie"

\* the Set-Cookie values of a header map, in order
RECURSIVE SetCookieValues(_)
SetCookieValues(headers) ==
    IF headers = <<>> THEN <<>>
    ELSE (IF Head(headers).name = SET_COOKIE THEN <<Head(headers).value>> ELSE <<>>)
             \o SetCookieValues(Tail(headers))

\* (StatusCode, [(header::SET_COOKIE, cookie); N], Json(body)).into_response():
\* the Set-Cookie headers the response ends up with
SetCookieArray(cookies) ==
    SetCookieValues(
        IntoResponseParts([i \in DOMAIN cookies |-> <<SET_COOKIE, cookies[i]>>], <<>>))

Response(status, body, set_cookie) ==
    [status |-> status, body |-> body, set_cookie |-> set_cookie]

\* a panic unwinds the handler: the connection is closed without a response
NoResponse == Response(0, [panicked |-> TRUE], <<>>)

Handled(resp, events, drawn) ==
    [resp |-> resp, events |-> events, drawn |-> drawn, ran |-> TRUE]

PairEvent(pair) ==
    [fn |-> "generate_token_pair",
     access_token |-> pair.access_token,
     refresh_token |-> Some(pair.refresh_token)]

AccessEvent(token) ==
    [fn |-> "generate_access_token", access_token |-> token, refresh_token |-> None]

demo_user_id == 1

\* variant: the input check of login looking at the email only
LoginFieldsMissing_EmailOnly(request) == request.email = ""

\* request.email.is_empty() || request.password.is_empty()
LoginFieldsMissing(request) == request.email = "" \/ request.password = ""

login(headers, request) ==
    IF LoginFieldsMissing(request) THEN
        Handled(Response(400, [success |-> FALSE,
                               message |-> "Email and password are required"], <<>>),
                {}, 0)
    ELSE LET pair == generate_token_pair(demo_user_id, request.email, rng + 1, rng + 2) IN
        IF IsPanic(pair) THEN Handled(NoResponse, {}, 0)
        ELSE IF is_native_client(headers) THEN
            Handled(Response(200, [success |-> TRUE,
                                   message |-> "Login successful",
                                   access_token |-> pair.ok.access_token,
                                   refresh_token |-> pair.ok.refresh_token,
                                   expires_in |-> pair.ok.expires_in], <<>>),
                    {PairEvent(pair.ok)}, 2)
        ELSE
            Handled(Response(200, [success |-> TRUE,
                                   message |-> "Login successful",
                                   expires_in |-> pair.ok.expires_in],
                             SetCookieArray(
                                 <<build_auth_cookie(pair.ok.access_token, FALSE),
                                   build_refresh_cookie(pair.ok.refresh_token, FALSE)>>)),
                    {PairEvent(pair.ok)}, 2)

logout ==
    Handled(Response(200, [success |-> TRUE, message |-> "Logged out successfully"],
                     SetCookieArray(<<build_auth_cookie(EmptyString, TRUE),
                                      build_refresh_cookie(EmptyString, TRUE)>>)),
            {}, 0)

\* variant: token extraction of refresh falling back to the cookie when the
\* body's token is empty
RefreshTokenOf_CookieFallback(headers, body) ==
    IF IsSome(body) /\ ~is_empty(body.some.refresh_token)
        THEN Some(body.some.refresh_token)
    ELSE extract_refresh_token_from_cookie(headers)

\* variant: token extraction of refresh preferring the cookie to the body
RefreshTokenOf_CookieFirst(headers, body) ==
    IF IsSome(extract_refresh_token_from_cookie(headers))
        THEN extract_refresh_token_from_cookie(headers)
    ELSE IF IsSome(body) THEN Some(body.some.refresh_token)
    ELSE None

\* the token refresh() goes on to validate: body first, else the cookie
RefreshTokenOf(headers, body) ==
    IF IsSome(body) THEN Some(body.some.refresh_token)
    ELSE extract_refresh_token_from_cookie(headers)

Unauthorized401(msg) == Response(401, [success |-> FALSE, message |-> msg], <<>>)

\* variant: the Err arm of refresh passing the validation error's message on
RefreshRejected_LeaksReason(err) == Unauthorized401(err.msg)

\* the Err(_) arm of refresh's match on validate_refresh_token
RefreshRejected(err) == Unauthorized401("Invalid or expired refresh token")

\* the X-Client-Type test of refresh
refresh_is_native_client(headers) ==
    IF IsNone(headers.x_client_type) THEN FALSE
    ELSE to_lowercase(unwrap_or(to_str(headers.x_client_type.some), <<>>)) = S_native

refresh(headers, body) ==
    LET refresh_token == RefreshTokenOf(headers, body) IN
    IF IsNone(refresh_token) \/ is_empty(refresh_token.some) THEN
        Handled(Unauthorized401("Refresh token required"), {}, 0)
    ELSE LET claims == validate_refresh_token(refresh_token.some) IN
        IF IsPanic(claims) THEN Handled(NoResponse, {}, 0)
        ELSE IF ~IsOk(claims) THEN Handled(RefreshRejected(claims), {}, 0)
        ELSE IF ~IsOk(user_id(claims.ok)) THEN
            Handled(Unauthorized401("Invalid token claims"), {}, 0)
        ELSE LET new_access_token ==
                    generate_access_token(user_id(claims.ok).ok, claims.ok.email, rng + 1)
             IN IF IsPanic(new_access_token) THEN Handled(NoResponse, {}, 0)
                ELSE IF refresh_is_native_client(headers) THEN
                    Handled(Response(200, [success |-> TRUE,
                                           access_token |-> new_access_token.ok,
                                           expires_in |-> 900], <<>>),
                            {AccessEvent(new_access_token.ok)}, 1)
                ELSE
                    Handled(Response(200, [success |-> TRUE, expires_in |-> 900],
                                     SetCookieArray(
                                         <<build_auth_cookie(new_access_token.ok, FALSE)>>)),
                            {AccessEvent(new_access_token.ok)}, 1)

----------------------------------------------------------------------------
(* main.rs: the router *)

\* layers wrapped around the auth routes, innermost first
AuthRouteLayers == <<"GovernorLayer">>

\* layers wrapped around the whole application, innermost first
AppLayers ==
    <<"TraceLayer", "GovernorLayer", "CorsLayer", "ConcurrencyLimitLayer",
      "CompressionLayer">>

\* What a layer does with a request on its way in.  The rate limiter, CORS,
\* tracing, concurrency and compression layers pass it on.
LayerOnRequest(layer, method, headers) ==
    IF layer = "csrf_middleware" THEN csrf_middleware(method, headers) ELSE Proceed

RECURSIVE ThroughLayers(_, _, _)
ThroughLayers(layers, method, headers) ==
    IF layers = <<>> THEN Proceed
    ELSE LET outer == LayerOnRequest(layers[Len(layers)], method, headers) IN
        IF outer # Proceed THEN outer
        ELSE ThroughLayers(SubSeq(layers, 1, Len(layers) - 1), method, headers)

\* a request to one of the auth routes: through the layers, then the handler
ServeAuthRoute(method, headers, handled) ==
    LET gate == ThroughLayers(AuthRouteLayers \o AppLayers, method, headers) IN
    IF gate = Proceed THEN handled
    ELSE [resp |-> Response(gate.status, [error |-> gate.error], <<>>),
          events |-> {}, drawn |-> 0, ran |-> FALSE]

----------------------------------------------------------------------------
(* Inputs *)

\* deployments in which main() gets past AppConfig::from_env
Deployments ==
    { [JWT_SECRET |-> None, ENVIRONMENT |-> None, debug_assertions |-> TRUE],
      [JWT_SECRET |-> Some("k_prod"), ENVIRONMENT |-> Some(S_Production),
       debug_assertions |-> FALSE],
      [JWT_SECRET |-> None, ENVIRONMENT |-> None, debug_assertions |-> FALSE] }

\* the clock moves by a second, an access lifetime or a refresh lifetime
ClockSteps ==
    {1, DurationMinutes(ACCESS_TOKEN_DURATION_MINUTES),
     DurationDays(REFRESH_TOKEN_DURATION_DAYS)}

ClientTypeHeaders == {None, Some(Str(S_NATIVE)), Some(Str(S_web)), Some(Opaque)}

\* CSRF token strings "a", "b"
CsrfA == Str(<<97>>)
CsrfB == Str(<<98>>)

NoHeaders ==
    [x_client_type |-> None, cookie |-> None, x_csrf_token |-> None]

\* every token string the token engine has handed out
Minted ==
    {e.access_token : e \in issued}
        \cup {e.refresh_token.some : e \in {x \in issued : IsSome(x.refresh_token)}}

OtherType(ty) == IF ty = "access" THEN "refresh" ELSE "access"

\* a minted token whose payload was edited, the signature left as it was
Retyped(t) ==
    Tok([t.tok EXCEPT !.claims.token_type = OtherType(t.tok.claims.token_type)])

\* a refresh token made up by a client that does not hold the server's key
ForgedClaims ==
    [sub |-> Digits(demo_user_id), email |-> "a@b.com", token_type |-> "refresh",
     exp |-> now + DurationDays(REFRESH_TOKEN_DURATION_DAYS), iat |-> now, jti |-> 0]

ForgedRefresh == encode(ForgedClaims, "k_attacker")

UnsignedRefresh ==
    Tok([alg |-> "none", claims |-> ForgedClaims, sig |-> Mac("", "none", ForgedClaims)])

\* "a.b.c", "abc"
GarbageStrings == {Str(<<97, 46, 98, 46, 99>>), Str(<<97, 98, 99>>)}

\* what a client can put where a token is expected
Presentable ==
    Minted \cup {Retyped(t) : t \in Minted}
           \cup {ForgedRefresh, UnsignedRefresh, EmptyString} \cup GarbageStrings

LoginBodies ==
    { [email |-> "a@b.com", password |-> "Secure123"],
      [email |-> "a@b.com", password |-> "wrong"],
      [email |-> "eve@x.org", password |-> "Secure123"],
      [email |-> "", password |-> "Secure123"],
      [email |-> "a@b.com", password |-> ""] }

\* the CSRF pair a request carries: none, or cookie and header
CsrfPairs == { <<None, None>>, <<Some(CsrfA), Some(CsrfA)>>, <<Some(CsrfA), Some(CsrfB)>> }

CookieHeader(pairs) == IF pairs = <<>> THEN None ELSE Some(Str(pairs))

CsrfCookie(c) == IF IsSome(c) THEN <<[name |-> CSRF_COOKIE_NAME, value |-> c.some]>> ELSE <<>>

Headers(ct, cookies, csrf) ==
    [x_client_type |-> ct,
     cookie |-> CookieHeader(cookies \o CsrfCookie(csrf[1])),
     x_csrf_token |-> csrf[2]]

\* the client types told apart by the handlers: a browser and a native app
CoreClientTypes == {None, Some(Str(S_NATIVE))}

\* login requests: every body from a browser and from a native app; the
\* registered user also with the other X-Client-Type values and a CSRF pair
LoginInputs ==
    { [body |-> b, ct |-> ct, csrf |-> <<None, None>>] :
        b \in LoginBodies, ct \in CoreClientTypes }
    \cup
    { [body |-> [email |-> "a@b.com", password |-> "Secure123"], ct |-> ct,
       csrf |-> <<None, None>>] : ct \in ClientTypeHeaders }
    \cup
    { [body |-> [email |-> "a@b.com", password |-> "Secure123"], ct |-> None,
       csrf |-> csrf] : csrf \in CsrfPairs }

\* logout requests: every client type; browsers also with a CSRF pair
LogoutInputs ==
    { [ct |-> ct, csrf |-> <<None, None>>] : ct \in ClientTypeHeaders }
    \cup { [ct |-> None, csrf |-> csrf] : csrf \in CsrfPairs }

----------------------------------------------------------------------------
(* The state machine *)

Idle == [op |-> "idle"]

\* the application state that reaches the database, and the table behind it
Database == <<db_pool, database_required, users_table>>

\* DATABASE_URL unset and DATABASE_REQUIRED unset: main() builds no pool
NoDatabase ==
    /\ db_pool = None
    /\ database_required = FALSE
    /\ users_table = <<>>

Init ==
    /\ now = 0
    /\ ticks = 0
    /\ rng = 0
    /\ issued = {}
    /\ last = Idle
    /\ logged_out = FALSE
    /\ NoDatabase
    /\ \E d \in Deployments :
        /\ JWT_SECRET = d.JWT_SECRET
        /\ ENVIRONMENT = d.ENVIRONMENT
        /\ debug_assertions = d.debug_assertions

Config == <<JWT_SECRET, ENVIRONMENT, debug_assertions>>

Record(op, headers, body, out) ==
    [op |-> op, headers |-> headers, body |-> body,
     resp |-> out.resp, events |-> out.events, ran |-> out.ran]

\* The server is observed one request at a time: `last` holds the request
\* being answered until its response has been written to the client.
Respond ==
    /\ last # Idle
    /\ last' = Idle
    /\ UNCHANGED <<now, ticks, rng, issued, logged_out, Config, Database>>

Tick ==
    /\ last = Idle
    /\ ticks < MaxTicks
    /\ \E d \in ClockSteps : now' = now + d
    /\ ticks' = ticks + 1
    /\ last' = Idle
    /\ UNCHANGED <<rng, issued, logged_out, Config, Database>>

Login ==
    /\ last = Idle
    /\ \E r \in LoginInputs :
        LET headers == Headers(r.ct, <<>>, r.csrf)
            out == ServeAuthRoute("POST", headers, login(headers, r.body))
        IN /\ rng + out.drawn <= MaxUuid
           /\ last' = Record("login", headers, Some(r.body), out)
           /\ issued' = issued \cup out.events
           /\ rng' = rng + out.drawn
    /\ UNCHANGED <<now, ticks, logged_out, Config, Database>>

Logout ==
    /\ last = Idle
    /\ \E r \in LogoutInputs :
        LET headers == Headers(r.ct, <<>>, r.csrf)
            out == ServeAuthRoute("POST", headers, logout)
        IN /\ last' = Record("logout", headers, None, out)
           /\ logged_out' = (logged_out \/ out.ran)
    /\ UNCHANGED <<now, ticks, rng, issued, Config, Database>>

RefreshCookie(v) == <<[name |-> REFRESH_TOKEN_COOKIE_NAME, value |-> v]>>

\* the refresh tokens handed out by login
LoginRefreshTokens ==
    {e.refresh_token.some : e \in {x \in issued : IsSome(x.refresh_token)}}

\* refresh requests: token in the body, in the cookie, in both, in neither
RefreshInputs ==
    { [ct |-> ct, body |-> Some([refresh_token |-> v]), cookies |-> <<>>,
       csrf |-> <<None, None>>] : ct \in CoreClientTypes, v \in Presentable }
    \cup
    { [ct |-> ct, body |-> Some([refresh_token |-> v]), cookies |-> <<>>,
       csrf |-> <<None, None>>] : ct \in ClientTypeHeaders, v \in LoginRefreshTokens }
    \cup
    { [ct |-> None, body |-> None, cookies |-> RefreshCookie(v), csrf |-> <<None, None>>] :
        v \in Presentable }
    \cup
    { [ct |-> None, body |-> None, cookies |-> RefreshCookie(v), csrf |-> csrf] :
        v \in LoginRefreshTokens, csrf \in CsrfPairs }
    \cup
    { [ct |-> None, body |-> Some([refresh_token |-> v]), cookies |-> RefreshCookie(w),
       csrf |-> <<None, None>>] :
        v \in Minted \cup {ForgedRefresh, EmptyString}, w \in LoginRefreshTokens }
    \cup
    { [ct |-> None, body |-> Some([refresh_token |-> v]),
       cookies |-> RefreshCookie(ForgedRefresh), csrf |-> <<None, None>>] :
        v \in LoginRefreshTokens }
    \cup
    { [ct |-> ct, body |-> None, cookies |-> <<>>, csrf |-> <<None, None>>] :
        ct \in ClientTypeHeaders }

Refresh ==
    /\ last = Idle
    /\ \E r \in RefreshInputs :
        LET headers == Headers(r.ct, r.cookies, r.csrf)
            out == ServeAuthRoute("POST", headers, refresh(headers, r.body))
        IN /\ rng + out.drawn <= MaxUuid
           /\ last' = Record("refresh", headers, r.body, out)
           /\ issued' = issued \cup out.events
           /\ rng' = rng + out.drawn
    /\ UNCHANGED <<now, ticks, logged_out, Config, Database>>

Validators == {"validate_token", "validate_access_token", "validate_refresh_token"}

ApplyValidator(fn, token) ==
    IF fn = "validate_token" THEN validate_token(token)
    ELSE IF fn = "validate_access_token" THEN validate_access_token(token)
    ELSE validate_refresh_token(token)

\* a protected route, or a test, validates a presented token
Validate ==
    /\ last = Idle
    /\ \E fn \in Validators, token \in Presentable :
        last' = [op |-> fn, token |-> token, result |-> ApplyValidator(fn, token)]
    /\ UNCHANGED <<now, ticks, rng, issued, logged_out, Config, Database>>

Next == Respond \/ Tick \/ Login \/ Logout \/ Refresh \/ Validate

Spec == Init /\ [][Next]_vars

----------------------------------------------------------------------------
(* csrf_middleware in front of an arbitrary inner service *)

Methods == {"GET", "HEAD", "OPTIONS", "POST", "PUT", "DELETE", "PATCH"}

AllClientTypeHeaders ==
    ClientTypeHeaders \cup {Some(Str(S_native)), Some(Str(S_Native)), Some(Str(<<>>))}

\* "ab"
CsrfAB == Str(<<97, 98>>)

CsrfCookieHeaders ==
    { None, Some(Opaque) }
    \cup { Some(Str(<<[name |-> CSRF_COOKIE_NAME, value |-> v]>>)) :
            v \in {CsrfA, CsrfAB, EmptyString} }
    \cup { Some(Str(<<[name |-> "other", value |-> CsrfA]>>)),
           Some(Str(<<[name |-> "other", value |-> CsrfB],
                      [name |-> CSRF_COOKIE_NAME, value |-> CsrfA]>>)),
           Some(Str(<<[name |-> CSRF_COOKIE_NAME, value |-> EmptyString],
                      [name |-> CSRF_COOKIE_NAME, value |-> CsrfB]>>)),
           Some(Str(<<[name |-> CSRF_COOKIE_NAME, value |-> CsrfA],
                      [name |-> CSRF_COOKIE_NAME, value |-> CsrfB]>>)) }

CsrfHeaderValues == {None, Some(Opaque), Some(CsrfA), Some(CsrfB), Some(CsrfAB), Some(EmptyString)}

\* the response of the service behind the middleware
InnerResponse == Response(200, [inner |-> TRUE], <<>>)

CsrfCheck ==
    /\ last = Idle
    /\ \E method \in Methods, ct \in AllClientTypeHeaders,
          cookie \in CsrfCookieHeaders, token \in CsrfHeaderValues :
        LET headers == [x_client_type |-> ct, cookie |-> cookie, x_csrf_token |-> token]
            gate == csrf_middleware(method, headers)
        IN last' = [op |-> "csrf_middleware", method |-> method, headers |-> headers,
                    resp |-> IF gate = Proceed THEN InnerResponse
                             ELSE Response(gate.status, [error |-> gate.error], <<>>),
                    ran |-> (gate = Proceed)]
    /\ UNCHANGED <<now, ticks, rng, issued, logged_out, Config, Database>>

NextCsrf == Respond \/ CsrfCheck

SpecCsrf == Init /\ [][NextCsrf]_vars

----------------------------------------------------------------------------
(* constant_time_eq on its own *)

\* the bytes of "0", "A", "a", "b"
EqBytes == {48, 65, 97, 98}

MaxEqLen == 2

RECURSIVE ByteStrings(_)
ByteStrings(n) ==
    IF n = 0 THEN {<<>>}
    ELSE ByteStrings(n - 1)
            \cup {Append(s, c) : s \in {x \in ByteStrings(n - 1) : Len(x) = n - 1},
                                 c \in EqBytes}

Compare ==
    /\ last = Idle
    /\ \E a \in ByteStrings(MaxEqLen), b \in ByteStrings(MaxEqLen) :
        last' = [op |-> "constant_time_eq", a |-> a, b |-> b,
                 result |-> constant_time_eq(a, b)]
    /\ UNCHANGED <<now, ticks, rng, issued, logged_out, Config, Database>>

NextEq == Respond \/ Compare

SpecEq == Init /\ [][NextEq]_vars

----------------------------------------------------------------------------

(* The token engine called directly: issuance and validation over time *)

\* the (user_id, email) arguments of the issuing functions
EngineUsers ==
    { [user_id |-> demo_user_id, email |-> "a@b.com"],
      [user_id |-> 1205, email |-> "eve@x.org"] }

DemoUsers == { [user_id |-> demo_user_id, email |-> "a@b.com"] }

\* generate_token_pair(user_id, email) for one of `users`
IssuePairFor(users) ==
    /\ last = Idle
    /\ rng + 2 <= MaxUuid
    /\ \E u \in users :
        LET r == generate_token_pair(u.user_id, u.email, rng + 1, rng + 2) IN
        /\ last' = [op |-> "generate_token_pair", user_id |-> u.user_id,
                    email |-> u.email, before |-> Minted, result |-> r]
        /\ issued' = IF IsOk(r) THEN issued \cup {PairEvent(r.ok)} ELSE issued
        /\ rng' = IF IsOk(r) THEN rng + 2 ELSE rng
    /\ UNCHANGED <<now, ticks, logged_out, Config, Database>>

\* generate_access_token(user_id, email) for one of `users`
IssueAccessFor(users) ==
    /\ last = Idle
    /\ rng + 1 <= MaxUuid
    /\ \E u \in users :
        LET r == generate_access_token(u.user_id, u.email, rng + 1) IN
        /\ last' = [op |-> "generate_access_token", user_id |-> u.user_id,
                    email |-> u.email, before |-> Minted, result |-> r]
        /\ issued' = IF IsOk(r) THEN issued \cup {AccessEvent(r.ok)} ELSE issued
        /\ rng' = IF IsOk(r) THEN rng + 1 ELSE rng
    /\ UNCHANGED <<now, ticks, logged_out, Config, Database>>

IssuePair == IssuePairFor(EngineUsers)
IssueAccess == IssueAccessFor(EngineUsers)

NextEngine == Respond \/ Tick \/ IssuePair \/ IssueAccess

SpecEngine == Init /\ [][NextEngine]_vars

\* the clock moves by the leeway, one second more, or a token lifetime
ExpirySteps ==
    {DefaultLeeway, DefaultLeeway + 1,
     DurationMinutes(ACCESS_TOKEN_DURATION_MINUTES),
     DurationDays(REFRESH_TOKEN_DURATION_DAYS)}

TickFine ==
    /\ last = Idle
    /\ ticks < MaxTicks
    /\ \E d \in ExpirySteps : now' = now + d
    /\ ticks' = ticks + 1
    /\ last' = Idle
    /\ UNCHANGED <<rng, issued, logged_out, Config, Database>>

IssueDemoPair == IssuePairFor(DemoUsers)

\* validate_token on a token the engine has handed out
ValidateToken ==
    /\ last = Idle
    /\ \E token \in Minted :
        last' = [op |-> "validate_token", token |-> token,
                 result |-> validate_token(token)]
    /\ UNCHANGED <<now, ticks, rng, issued, logged_out, Config, Database>>

NextExpiry == Respond \/ TickFine \/ IssueDemoPair \/ ValidateToken

SpecExpiry == Init /\ [][NextExpiry]_vars

----------------------------------------------------------------------------

(* Startup: main() from process start to the listening server *)

\* "development", "staging"
S_development == <<100, 101, 118, 101, 108, 111, 112, 109, 101, 110, 116>>
S_staging == <<115, 116, 97, 103, 105, 110, 103>>

\* the development default of allowed_origins
DevOrigins ==
    <<"http://localhost:8081", "http://localhost:19006",
      "http://127.0.0.1:8081", "http://10.0.2.2:8081">>

\* variant: the production validation without the JWT_SECRET test
from_env_NoSecretCheck(database, ALLOWED_ORIGINS) ==
    IF database.required /\ IsNone(database.url)
    THEN Err("Config", "DATABASE_REQUIRED=true but DATABASE_URL is missing")
    ELSE LET environment ==
                to_lowercase(IF IsSome(ENVIRONMENT) THEN ENVIRONMENT.some
                             ELSE S_development)
             production == environment = S_production \/ environment = S_prod
             allowed_origins ==
                IF IsSome(ALLOWED_ORIGINS) THEN ALLOWED_ORIGINS.some
                ELSE IF production THEN <<>> ELSE DevOrigins
         IN IF production /\ allowed_origins = <<>>
                THEN Err("Config", "ALLOWED_ORIGINS must be set in production")
            ELSE Ok([database_url |-> database.url,
                     database_required |-> database.required,
                     allowed_origins |-> allowed_origins,
                     environment |-> environment])

\* AppConfig::from_env; database is DATABASE_URL with the resolved
\* DATABASE_REQUIRED, ALLOWED_ORIGINS the variable split on ',' if set
from_env(database, ALLOWED_ORIGINS) ==
    IF database.required /\ IsNone(database.url)
    THEN Err("Config", "DATABASE_REQUIRED=true but DATABASE_URL is missing")
    ELSE LET environment ==
                to_lowercase(IF IsSome(ENVIRONMENT) THEN ENVIRONMENT.some
                             ELSE S_development)
             production == environment = S_production \/ environment = S_prod
             allowed_origins ==
                IF IsSome(ALLOWED_ORIGINS) THEN ALLOWED_ORIGINS.some
                ELSE IF production THEN <<>> ELSE DevOrigins
         IN IF production /\ allowed_origins = <<>>
                THEN Err("Config", "ALLOWED_ORIGINS must be set in production")
            ELSE IF production /\ IsNone(JWT_SECRET)
                THEN Err("Config", "JWT_SECRET must be set in production")
            ELSE Ok([database_url |-> database.url,
                     database_required |-> database.required,
                     allowed_origins |-> allowed_origins,
                     environment |-> environment])

\* the process has been started and main() has not run yet
Exec == [op |-> "exec"]
\* std::process::exit(code)
Exited(code) == [op |-> "exit", code |-> code]

\* every build profile and setting of JWT_SECRET and ENVIRONMENT
StartupEnvironments ==
    { [JWT_SECRET |-> s, ENVIRONMENT |-> e, debug_assertions |-> d] :
        s \in {None, Some("k_prod")},
        e \in {None, Some(S_production), Some(S_Production), Some(S_prod),
               Some(S_staging)},
        d \in BOOLEAN }

DatabaseSettings ==
    { [url |-> None, required |-> FALSE], [url |-> None, required |-> TRUE],
      [url |-> Some("postgres://db"), required |-> TRUE] }

AllowedOriginsSettings == { None, Some(<<>>), Some(<<"https://app.example">>) }

InitStartup ==
    /\ now = 0
    /\ ticks = 0
    /\ rng = 0
    /\ issued = {}
    /\ last = Exec
    /\ logged_out = FALSE
    /\ NoDatabase
    /\ \E d \in StartupEnvironments :
        /\ JWT_SECRET = d.JWT_SECRET
        /\ ENVIRONMENT = d.ENVIRONMENT
        /\ debug_assertions = d.debug_assertions

\* main() up to axum::serve: the configuration, the database pool and the
\* listener; resources tells whether pool and listener could be set up
Startup ==
    /\ last = Exec
    /\ \E database \in DatabaseSettings, origins \in AllowedOriginsSettings,
          resources \in BOOLEAN :
        LET config == from_env(database, origins)
            started == IsOk(config) /\ resources
        IN  /\ last' = IF IsErr(config) THEN Exited(1)
                       ELSE IF ~resources THEN Exited(1)
                       ELSE Idle
            /\ db_pool' = IF started /\ IsSome(config.ok.database_url)
                          THEN Some("pool") ELSE None
            /\ database_required' = (started /\ config.ok.database_required)
    /\ UNCHANGED <<now, ticks, rng, issued, logged_out, Config, users_table>>

Serving == last.op \notin {"exec", "exit"}

RespondServing == Serving /\ Respond

\* a token signed with the development fallback secret, which is public
DevSigned(ty) == encode([ForgedClaims EXCEPT !.token_type = ty], DEV_SECRET)

\* a protected route validates a minted token or one signed with the
\* development secret
ValidatePresented ==
    /\ last = Idle
    /\ \E fn \in Validators,
          token \in Minted \cup {DevSigned("access"), DevSigned("refresh")} :
        last' = [op |-> fn, token |-> token, result |-> ApplyValidator(fn, token)]
    /\ UNCHANGED <<now, ticks, rng, issued, logged_out, Config, Database>>

NextStartup == Startup \/ RespondServing \/ Login \/ ValidatePresented

SpecStartup == InitStartup /\ [][NextStartup]_vars

----------------------------------------------------------------------------

(* The cookie builders called directly, in every environment *)

\* the process is serving, in any build and environment
InitServing ==
    /\ now = 0
    /\ ticks = 0
    /\ rng = 0
    /\ issued = {}
    /\ last = Idle
    /\ logged_out = FALSE
    /\ NoDatabase
    /\ \E d \in StartupEnvironments :
        /\ JWT_SECRET = d.JWT_SECRET
        /\ ENVIRONMENT = d.ENVIRONMENT
        /\ debug_assertions = d.debug_assertions

CookieBuilders == {"build_auth_cookie", "build_refresh_cookie"}

\* the token argument: a signed token, "h", or "" as passed when clearing
CookieTokens == {ForgedRefresh, Str(<<104>>), EmptyString}

BuildCookie ==
    /\ last = Idle
    /\ \E fn \in CookieBuilders, token \in CookieTokens, clear \in BOOLEAN :
        last' = [op |-> fn, token |-> token, clear |-> clear,
                 cookie |-> IF fn = "build_auth_cookie"
                            THEN build_auth_cookie(token, clear)
                            ELSE build_refresh_cookie(token, clear)]
    /\ UNCHANGED <<now, ticks, rng, issued, logged_out, Config, Database>>

NextCookies == Respond \/ BuildCookie

SpecCookies == InitServing /\ [][NextCookies]_vars

----------------------------------------------------------------------------

(* The CSRF issue endpoint *)

\* get_csrf_token, given the bytes drawn from the random generator
get_csrf_token(random) ==
    LET token == generate_csrf_token(random)
        cookie == build_csrf_cookie(token)
    IN Response(200, [csrf_token |-> token], SetCookieArray(<<cookie>>))

\* blocks of 32 bytes the generator can yield: all 0x00, all 0x0a, all 0xff
\* and a mixed one
RandomBlocks ==
    { [i \in 1..32 |-> 0], [i \in 1..32 |-> 10], [i \in 1..32 |-> 255],
      [i \in 1..32 |-> (i * 37) % 256] }

\* the CSRF tokens handed out so far
CsrfIssued == {e.csrf_token : e \in issued}

\* GET /api/v1/csrf; the generator is cryptographically secure, so a call
\* draws a block that no earlier call drew
GetCsrfToken ==
    /\ last = Idle
    /\ \E random \in RandomBlocks :
        /\ generate_csrf_token(random) \notin CsrfIssued
        /\ LET resp == get_csrf_token(random) IN
            /\ last' = [op |-> "get_csrf_token", before |-> CsrfIssued, resp |-> resp]
            /\ issued' = issued \cup {[fn |-> "get_csrf_token",
                                       csrf_token |-> resp.body.csrf_token]}
    /\ rng' = rng + 1
    /\ UNCHANGED <<now, ticks, logged_out, Config, Database>>

NextCsrfIssue == Respond \/ GetCsrfToken

SpecCsrfIssue == InitServing /\ [][NextCsrfIssue]_vars

----------------------------------------------------------------------------

(* password.rs.  A password is its sequence of chars (Unicode code points);
   a PHC hash string is the record of its fields, any other string is Str *)

MIN_PASSWORD_LENGTH == 8
MAX_PASSWORD_LENGTH == 128

\* bytes of a char in UTF-8
Utf8Len(c) == IF c < 128 THEN 1 ELSE IF c < 2048 THEN 2 ELSE IF c < 65536 THEN 3 ELSE 4

\* str::len: the length in bytes, i.e. the number of (char, byte) positions
len(s) == Cardinality({x \in (DOMAIN s) \X (1..4) : x[2] <= Utf8Len(s[x[1]])})

\* char::is_alphabetic, for ASCII and Latin-1 (no char above U+00FF that
\* the model uses is alphabetic)
is_alphabetic(c) ==
    \/ c \in 65..90
    \/ c \in 97..122
    \/ c \in {170, 181, 186}
    \/ (c \in 192..255 /\ c \notin {215, 247})

\* char::is_ascii_digit
is_ascii_digit(c) == c \in 48..57

validate_password_strength(password) ==
    IF len(password) < MIN_PASSWORD_LENGTH
        THEN Err("BadRequest", "Password must be at least 8 characters")
    ELSE IF len(password) > MAX_PASSWORD_LENGTH
        THEN Err("BadRequest", "Password must be at most 128 characters")
    ELSE LET has_letter == \E i \in DOMAIN password : is_alphabetic(password[i])
             has_digit == \E i \in DOMAIN password : is_ascii_digit(password[i])
         IN IF ~has_letter \/ ~has_digit
                THEN Err("BadRequest",
                         "Password must contain at least one letter and one number")
            ELSE Ok(TRUE)

\* Argon2::default(): Argon2id, version 0x13, m=19456, t=2, p=1
Argon2DefaultParams == [m |-> 19456, t |-> 2, p |-> 1]
Argon2Algorithms == {"argon2d", "argon2i", "argon2id"}

\* the Argon2 digest: reproducible only from the same inputs
Argon2Digest(alg, version, params, salt, password) ==
    [alg |-> alg, version |-> version, params |-> params, salt |-> salt,
     password |-> password]

\* a PHC string "$alg$v=..$params$salt$hash"; the hash field is optional
Phc(fields) == [phc |-> fields]
IsPhc(h) == "phc" \in DOMAIN h

\* hash_password, given the salt that SaltString::generate draws
hash_password(password, salt) ==
    IF IsErr(validate_password_strength(password))
        THEN validate_password_strength(password)
    ELSE Ok(Phc([alg |-> "argon2id", version |-> 19, params |-> Argon2DefaultParams,
                 salt |-> salt,
                 hash |-> Some(Argon2Digest("argon2id", 19, Argon2DefaultParams,
                                            salt, password))]))

\* PasswordHash::new
PasswordHashNew(hash) == IF IsPhc(hash) THEN Ok(hash.phc) ELSE Err("PhcStringInvalid", "")

\* Argon2's PasswordVerifier::verify_password on a parsed hash
Argon2Verify(password, parsed) ==
    IF parsed.alg \notin Argon2Algorithms THEN Err("Algorithm", "")
    ELSE IF parsed.version \notin {16, 19} THEN Err("Version", "")
    ELSE IF parsed.params.m < 8 * parsed.params.p \/ parsed.params.t < 1
                \/ parsed.params.p < 1
        THEN Err("ParamValueInvalid", "")
    ELSE IF /\ IsSome(parsed.hash)
            /\ parsed.hash.some = Argon2Digest(parsed.alg, parsed.version, parsed.params,
                                               parsed.salt, password)
        THEN Ok(TRUE)
    ELSE Err("Password", "")

\* variant: a wrong password reported as a verification error
verify_password_WrongIsError(password, hash) ==
    IF IsErr(PasswordHashNew(hash))
        THEN Err("InternalError", "Password verification failed")
    ELSE LET v == Argon2Verify(password, PasswordHashNew(hash).ok) IN
        IF IsOk(v) THEN Ok(TRUE)
        ELSE Err("InternalError", "Password verification failed")

verify_password(password, hash) ==
    IF IsErr(PasswordHashNew(hash))
        THEN Err("InternalError", "Password verification failed")
    ELSE LET v == Argon2Verify(password, PasswordHashNew(hash).ok) IN
        IF IsOk(v) THEN Ok(TRUE)
        ELSE IF v.err = "Password" THEN Ok(FALSE)
        ELSE Err("InternalError", "Password verification failed")

\* n times the char c
Rep(c, n) == [i \in 1..n |-> c]

\* candidate passwords: a run of 'a', '1', U+00E9 or '!' of a length around
\* the limits, followed by nothing, "a1", "1" or "a"
PolicyPasswords ==
    { Rep(c, n) \o s :
        c \in {97, 49, 233, 33},
        n \in {0, 3, 5, 6, 7, 8, 62, 63, 64, 126, 127, 128},
        s \in {<<>>, <<97, 49>>, <<49>>, <<97>>} }

Salts == {"salt1", "salt2"}

HashPassword ==
    /\ last = Idle
    /\ \E password \in PolicyPasswords, salt \in Salts :
        last' = [op |-> "hash_password", password |-> password,
                 result |-> hash_password(password, salt)]
    /\ UNCHANGED <<now, ticks, rng, issued, logged_out, Config, Database>>

\* "Secure123", "Password123" and a password of 128 chars
P_Secure123 == <<83, 101, 99, 117, 114, 101, 49, 50, 51>>
P_Password123 == <<80, 97, 115, 115, 119, 111, 114, 100, 49, 50, 51>>
HashedPasswords == {P_Secure123, P_Password123, Rep(97, 126) \o <<97, 49>>}

\* the passwords tried against a hash: the hashed ones, "secure123",
\* "Secure12", "Secure123 ", "WrongPass123" and ""
TriedPasswords ==
    HashedPasswords
        \cup { <<115, 101, 99, 117, 114, 101, 49, 50, 51>>,
               <<83, 101, 99, 117, 114, 101, 49, 50>>,
               <<83, 101, 99, 117, 114, 101, 49, 50, 51, 32>>,
               <<87, 114, 111, 110, 103, 80, 97, 115, 115, 49, 50, 51>>,
               <<>> }

\* stored strings that hash_password did not produce: "abc", "", the PHC
\* string of another algorithm, one with unusable parameters and one cut
\* off before its hash field
OtherStoredHashes ==
    { Str(<<97, 98, 99>>), EmptyString,
      Phc([alg |-> "scrypt", version |-> 19, params |-> Argon2DefaultParams,
           salt |-> "salt1", hash |-> Some("digest")]),
      Phc([alg |-> "argon2id", version |-> 19, params |-> [m |-> 0, t |-> 2, p |-> 1],
           salt |-> "salt1", hash |-> Some("digest")]),
      Phc([alg |-> "argon2id", version |-> 19, params |-> Argon2DefaultParams,
           salt |-> "salt1", hash |-> None]) }

\* verify_password against the hash of p, or against another stored string
VerifyPassword ==
    /\ last = Idle
    /\ \E password \in TriedPasswords :
        \/ \E p \in HashedPasswords, salt \in Salts :
            LET h == hash_password(p, salt).ok IN
            last' = [op |-> "verify_password", password |-> password, hash |-> h,
                     hashed |-> Some(p), result |-> verify_password(password, h)]
        \/ \E h \in OtherStoredHashes :
            last' = [op |-> "verify_password", password |-> password, hash |-> h,
                     hashed |-> None, result |-> verify_password(password, h)]
    /\ UNCHANGED <<now, ticks, rng, issued, logged_out, Config, Database>>

NextPassword == Respond \/ HashPassword \/ VerifyPassword

SpecPassword == Init /\ [][NextPassword]_vars

----------------------------------------------------------------------------

(* The health probes *)

\* tokio::task::spawn_blocking(f).await, given what the closure does: its
\* return value, or a JoinError when the closure panics
spawn_blocking(outcome) ==
    IF IsPanic(outcome) THEN Err("JoinError", "task panicked") ELSE Ok(outcome)

\* what the database does to a probe or a statement
DatabaseConditions == {"up", "no_connection", "query_fails", "panic"}

\* db::check_database run against a database in the given condition
check_database(condition) ==
    CASE condition = "no_connection" ->
            Err("String", "failed to get database connection from pool")
      [] condition = "query_fails" -> Err("String", "database health query failed")
      [] condition = "panic" -> Panicked
      [] OTHER -> Ok("unit")

\* GET /health/live
live == Response(200, [status |-> "ok"], <<>>)

\* GET /health/ready that answers 200 whenever there is a pool
ready_PoolMeansReady(pool, required, condition) ==
    IF IsSome(pool) THEN Response(200, [status |-> "ready", database |-> "ok"], <<>>)
    ELSE IF required
        THEN Response(503, [status |-> "not_ready", database |-> "missing"], <<>>)
    ELSE Response(200, [status |-> "ready", database |-> "disabled"], <<>>)

\* GET /health/ready, given the state and the condition of the database
ready(pool, required, condition) ==
    IF IsSome(pool)
        THEN LET joined == spawn_blocking(check_database(condition))
             IN  IF IsOk(joined) /\ IsOk(joined.ok)
                     THEN Response(200, [status |-> "ready", database |-> "ok"], <<>>)
                 ELSE Response(503, [status |-> "not_ready", database |-> "down"], <<>>)
    ELSE IF required
        THEN Response(503, [status |-> "not_ready", database |-> "missing"], <<>>)
    ELSE Response(200, [status |-> "ready", database |-> "disabled"], <<>>)

\* the router serves with any state: with and without a pool, the database
\* required or not, as the tests of the health module build it
InitHealth ==
    /\ now = 0
    /\ ticks = 0
    /\ rng = 0
    /\ issued = {}
    /\ last = Idle
    /\ logged_out = FALSE
    /\ db_pool \in {None, Some("pool")}
    /\ database_required \in BOOLEAN
    /\ users_table = <<>>
    /\ \E d \in StartupEnvironments :
        /\ JWT_SECRET = d.JWT_SECRET
        /\ ENVIRONMENT = d.ENVIRONMENT
        /\ debug_assertions = d.debug_assertions

Live ==
    /\ last = Idle
    /\ last' = [op |-> "live", resp |-> live]
    /\ UNCHANGED <<now, ticks, rng, issued, logged_out, Config, Database>>

Ready ==
    /\ last = Idle
    /\ \E condition \in DatabaseConditions :
        last' = [op |-> "ready", condition |-> condition,
                 resp |-> ready(db_pool, database_required, condition)]
    /\ UNCHANGED <<now, ticks, rng, issued, logged_out, Config, Database>>

NextHealth == Respond \/ Live \/ Ready

SpecHealth == InitHealth /\ [][NextHealth]_vars

----------------------------------------------------------------------------

(* Refresh of sessions that belong to different users *)

\* refresh is served for tokens of the pairs that generate_token_pair has
\* handed to the users of EngineUsers
NextIdentity == Respond \/ Tick \/ IssuePair \/ Refresh

SpecIdentity == Init /\ [][NextIdentity]_vars

----------------------------------------------------------------------------

(* The user repository over the users table *)

\* the most rows the users table gets
MaxUsers == 2

\* EmailAddress::is_valid for addresses without quoting: one '@' with
\* something on either side of it, and no space
is_valid(email) ==
    \E i \in DOMAIN email :
        /\ email[i] = 64
        /\ 1 < i
        /\ i < Len(email)
        /\ \A j \in DOMAIN email : (j # i => email[j] # 64) /\ email[j] # 32

validate_email(email) ==
    IF is_valid(email) THEN Ok("unit") ELSE Err("InvalidEmail", "invalid email")

\* what the database and the worker thread do to one unit of blocking work:
\* it runs, the pool hands out no connection, the statement fails, or the
\* closure panics before or after its statement has taken effect
Faults == {"none", "no_connection", "query_fails", "panic", "panic_late"}

\* variant: the result of the blocking task awaited and unwrapped
AwaitBlocking_Unwrap(outcome, panicked) ==
    IF IsErr(spawn_blocking(outcome)) THEN Panicked ELSE spawn_blocking(outcome).ok

\* spawn_blocking(..).await.map_err(|e| InternalError(panicked))?
AwaitBlocking(outcome, panicked) ==
    IF IsErr(spawn_blocking(outcome)) THEN Err("InternalError", panicked)
    ELSE spawn_blocking(outcome).ok

\* pool.get() failing inside the closure
NoConnection == Err("InternalError", "Database connection failed")

\* the outcome of a repository function: its result and the table it leaves
Outcome(result, table) == [result |-> result, table |-> table]

\* whether another row than `id` holds the email (emails are unique: the
\* UniqueViolation the insert is prepared for)
EmailTaken(table, email, id) ==
    \E k \in DOMAIN table : k # id /\ table[k].email = email

get_user_by_id(table, uid, fault) ==
    LET found ==
            CASE fault \in {"panic", "panic_late"} -> Panicked
              [] fault = "no_connection" -> NoConnection
              [] fault = "query_fails" -> Err("InternalError", "Database query failed")
              [] OTHER -> IF uid \in DOMAIN table THEN Ok(table[uid])
                          ELSE Err("NotFound", <<"User", uid, "not found">>)
    IN Outcome(AwaitBlocking(found, "Database query panicked"), table)

\* the row that insert_into(users::table) returns: the next id, active,
\* both timestamps now
NewUser(table, email, password_hash, name) ==
    [id |-> Len(table) + 1, email |-> email, password_hash |-> password_hash,
     name |-> name, is_active |-> TRUE, created_at |-> now, updated_at |-> now]

create_user(table, data, salt, fault) ==
    IF IsErr(validate_email(data.email))
        THEN Outcome(Err("BadRequest", "invalid email"), table)
    ELSE IF IsErr(hash_password(data.password, salt))
        THEN Outcome(hash_password(data.password, salt), table)
    ELSE LET row == NewUser(table, data.email,
                            hash_password(data.password, salt).ok, data.name)
             unique == ~EmailTaken(table, data.email, 0)
             inserted ==
                CASE fault \in {"panic", "panic_late"} -> Panicked
                  [] fault = "no_connection" -> NoConnection
                  [] fault = "query_fails" ->
                        Err("InternalError", "Database insert failed")
                  [] OTHER -> IF unique THEN Ok(row)
                              ELSE Err("Conflict", "Email already exists")
         IN Outcome(AwaitBlocking(inserted, "Database insert panicked"),
                    IF fault \in {"none", "panic_late"} /\ unique
                        THEN Append(table, row) ELSE table)

\* the row after the UPDATE of update_user: the fields that are provided
UpdatedUser(row, data) ==
    [row EXCEPT !.email = IF IsSome(data.email) THEN data.email.some ELSE @,
                !.name = IF IsSome(data.name) THEN data.name.some ELSE @,
                !.updated_at = now]

update_user(table, uid, data, fault) ==
    IF IsSome(data.email) /\ IsErr(validate_email(data.email.some))
        THEN Outcome(Err("BadRequest", "invalid email"), table)
    ELSE LET exists == uid \in DOMAIN table
             empty == IsNone(data.email) /\ IsNone(data.name)
             clash == exists /\ IsSome(data.email)
                        /\ EmailTaken(table, data.email.some, uid)
             writes == exists /\ ~empty /\ ~clash
             updated_rows == IF writes THEN 1 ELSE 0
             updated ==
                CASE fault \in {"panic", "panic_late"} -> Panicked
                  [] fault = "no_connection" -> NoConnection
                  [] fault = "query_fails" /\ ~empty ->
                        Err("InternalError", "Database update failed")
                  [] clash -> Err("InternalError", "Database update failed")
                  [] updated_rows = 0 ->
                        Err("NotFound", <<"User", uid, "not found">>)
                  [] OTHER -> Ok(UpdatedUser(table[uid], data))
         IN Outcome(AwaitBlocking(updated, "Database update panicked"),
                    IF fault \in {"none", "panic_late"} /\ writes
                        THEN [table EXCEPT ![uid] = UpdatedUser(@, data)]
                    ELSE table)

\* variant: delete_user that updates active rows only
delete_user_ActiveRowsOnly(table, uid, fault) ==
    LET exists == uid \in DOMAIN table
        updated_rows == IF exists /\ table[uid].is_active THEN 1 ELSE 0
        deleted ==
            CASE fault \in {"panic", "panic_late"} -> Panicked
              [] fault = "no_connection" -> NoConnection
              [] fault = "query_fails" -> Err("InternalError", "Database delete failed")
              [] updated_rows = 0 -> Err("NotFound", <<"User", uid, "not found">>)
              [] OTHER -> Ok("unit")
    IN Outcome(AwaitBlocking(deleted, "Database delete panicked"),
               IF fault \in {"none", "panic_late"} /\ updated_rows = 1
                   THEN [table EXCEPT ![uid].is_active = FALSE,
                                      ![uid].updated_at = now]
               ELSE table)

delete_user(table, uid, fault) ==
    LET exists == uid \in DOMAIN table
        updated_rows == IF exists THEN 1 ELSE 0
        deleted ==
            CASE fault \in {"panic", "panic_late"} -> Panicked
              [] fault = "no_connection" -> NoConnection
              [] fault = "query_fails" -> Err("InternalError", "Database delete failed")
              [] updated_rows = 0 -> Err("NotFound", <<"User", uid, "not found">>)
              [] OTHER -> Ok("unit")
    IN Outcome(AwaitBlocking(deleted, "Database delete panicked"),
               IF fault \in {"none", "panic_late"} /\ exists
                   THEN [table EXCEPT ![uid].is_active = FALSE,
                                      ![uid].updated_at = now]
               ELSE table)

get_user_by_email(table, email, fault) ==
    LET matching == {k \in DOMAIN table : table[k].email = email /\ table[k].is_active}
        found ==
            CASE fault \in {"panic", "panic_late"} -> Panicked
              [] fault = "no_connection" -> NoConnection
              [] fault = "query_fails" -> Err("InternalError", "Database query failed")
              [] OTHER -> IF matching # {} THEN Ok(table[CHOOSE k \in matching : TRUE])
                          ELSE Err("NotFound", "User not found")
    IN Outcome(AwaitBlocking(found, "Database query panicked"), table)

\* "a@b", "c@d", "e@f"
ValidEmails == {<<97, 64, 98>>, <<99, 64, 100>>, <<101, 64, 102>>}

\* ids asked for: those of the rows the table can get, and one beyond
UserIds == 1..(MaxUsers + 1)

\* users "a@b", "c@d", "e@f", "ab", "@b", "a@" with "Secure123" or "abc"
CreateUserRequests ==
    { [email |-> e, password |-> p, name |-> "Ann"] :
        e \in ValidEmails \cup {<<97, 98>>, <<64, 98>>, <<97, 64>>},
        p \in {P_Secure123, <<97, 98, 99>>} }

UpdateUserRequests ==
    { [email |-> e, name |-> n] :
        e \in {None} \cup {Some(x) : x \in ValidEmails \cup {<<97, 98>>}},
        n \in {None, Some("Bob")} }

\* the service runs in production with a pool and an empty users table
InitUsers ==
    /\ now = 0
    /\ ticks = 0
    /\ rng = 0
    /\ issued = {}
    /\ last = Idle
    /\ logged_out = FALSE
    /\ db_pool = Some("pool")
    /\ database_required = TRUE
    /\ users_table = <<>>
    /\ JWT_SECRET = Some("k_prod")
    /\ ENVIRONMENT = Some(S_Production)
    /\ debug_assertions = FALSE

\* what is recorded of a repository call
Call(op, args, fault, out) ==
    [op |-> op, args |-> args, fault |-> fault, result |-> out.result]

GetUserById ==
    /\ last = Idle
    /\ \E uid \in UserIds, fault \in Faults :
        LET out == get_user_by_id(users_table, uid, fault) IN
        /\ last' = Call("get_user_by_id", [user_id |-> uid], fault, out)
        /\ users_table' = out.table
    /\ UNCHANGED <<now, ticks, rng, issued, logged_out, Config, db_pool, database_required>>

CreateUser ==
    /\ last = Idle
    /\ Len(users_table) < MaxUsers
    /\ \E data \in CreateUserRequests, fault \in Faults :
        LET out == create_user(users_table, data, "salt1", fault) IN
        /\ last' = Call("create_user", [data |-> data], fault, out)
        /\ users_table' = out.table
    /\ UNCHANGED <<now, ticks, rng, issued, logged_out, Config, db_pool, database_required>>

UpdateUser ==
    /\ last = Idle
    /\ \E uid \in UserIds, data \in UpdateUserRequests, fault \in Faults :
        LET out == update_user(users_table, uid, data, fault) IN
        /\ last' = Call("update_user", [user_id |-> uid, data |-> data], fault, out)
        /\ users_table' = out.table
    /\ UNCHANGED <<now, ticks, rng, issued, logged_out, Config, db_pool, database_required>>

DeleteUser ==
    /\ last = Idle
    /\ \E uid \in UserIds, fault \in Faults :
        LET out == delete_user(users_table, uid, fault) IN
        /\ last' = Call("delete_user", [user_id |-> uid], fault, out)
        /\ users_table' = out.table
    /\ UNCHANGED <<now, ticks, rng, issued, logged_out, Config, db_pool, database_required>>

GetUserByEmail ==
    /\ last = Idle
    /\ \E email \in ValidEmails, fault \in Faults :
        LET out == get_user_by_email(users_table, email, fault) IN
        /\ last' = Call("get_user_by_email", [email |-> email], fault, out)
        /\ users_table' = out.table
    /\ UNCHANGED <<now, ticks, rng, issued, logged_out, Config, db_pool, database_required>>

NextUsers ==
    Respond \/ GetUserById \/ CreateUser \/ UpdateUser \/ DeleteUser \/ GetUserByEmail

SpecUsers == InitUsers /\ [][NextUsers]_vars

----------------------------------------------------------------------------

(* Header inspection: the token of a request and the client type *)

\* "h", "c", "d", "x" as token strings
TokH == <<104>>
TokC == Str(<<99>>)
TokD == Str(<<100>>)
TokX == Str(<<120>>)

\* "Bearer h", "Bearer ", "bearer h", "Basic h", "Bearerh", "Bearer  h", ""
AuthorizationHeaders ==
    { None, Some(Opaque),
      Some(Str(S_BearerPrefix \o TokH)),
      Some(Str(S_BearerPrefix)),
      Some(Str(<<98, 101, 97, 114, 101, 114, 32>> \o TokH)),
      Some(Str(<<66, 97, 115, 105, 99, 32>> \o TokH)),
      Some(Str(<<66, 101, 97, 114, 101, 114>> \o TokH)),
      Some(Str(S_BearerPrefix \o <<32>> \o TokH)),
      Some(Str(<<>>)) }

AccessCookieHeaders ==
    { None, Some(Opaque),
      Some(Str(<<[name |-> ACCESS_TOKEN_COOKIE_NAME, value |-> TokC]>>)),
      Some(Str(<<[name |-> ACCESS_TOKEN_COOKIE_NAME, value |-> EmptyString]>>)),
      Some(Str(<<[name |-> "other", value |-> TokX]>>)),
      Some(Str(<<[name |-> REFRESH_TOKEN_COOKIE_NAME, value |-> TokC]>>)),
      Some(Str(<<[name |-> "other", value |-> TokX],
                 [name |-> ACCESS_TOKEN_COOKIE_NAME, value |-> TokC]>>)),
      Some(Str(<<[name |-> ACCESS_TOKEN_COOKIE_NAME, value |-> EmptyString],
                 [name |-> ACCESS_TOKEN_COOKIE_NAME, value |-> TokD]>>)),
      Some(Str(<<[name |-> ACCESS_TOKEN_COOKIE_NAME, value |-> TokC],
                 [name |-> ACCESS_TOKEN_COOKIE_NAME, value |-> TokD]>>)) }

\* a protected route takes the token of a request
Extract ==
    /\ last = Idle
    /\ \E authorization \in AuthorizationHeaders, cookie \in AccessCookieHeaders :
        LET headers == [authorization |-> authorization, cookie |-> cookie]
        IN last' = [op |-> "extract_token_from_request", headers |-> headers,
                    result |-> extract_token_from_request(headers)]
    /\ UNCHANGED <<now, ticks, rng, issued, logged_out, Config, Database>>

\* X-Client-Type values: absent, unreadable, "", "native" in several letter
\* cases, and strings that are not "native"
ClientTypeValues ==
    AllClientTypeHeaders
    \cup { Some(Str(<<110, 65, 116, 73, 118, 69>>)),
           Some(Str(S_native \o <<32>>)),
           Some(Str(<<32>> \o S_native)),
           Some(Str(SubSeq(S_native, 1, 5))),
           Some(Str(S_native \o <<115>>)),
           Some(Str(<<109, 111, 98, 105, 108, 101>>)) }

\* the three sites that tell native clients from web clients look at the
\* same request
Classify ==
    /\ last = Idle
    /\ \E ct \in ClientTypeValues, csrf \in CsrfPairs :
        LET headers == Headers(ct, <<>>, csrf)
        IN last' = [op |-> "client_type", headers |-> headers,
                    login |-> is_native_client(headers),
                    refresh |-> refresh_is_native_client(headers),
                    csrf |-> CsrfNativeExempt(headers)]
    /\ UNCHANGED <<now, ticks, rng, issued, logged_out, Config, Database>>

NextHeaders == Respond \/ Extract \/ Classify

SpecHeaders == Init /\ [][NextHeaders]_vars

----------------------------------------------------------------------------
(* Properties *)

HasSecret == IsOk(get_jwt_secret)

PairEvents == {e \in issued : e.fn = "generate_token_pair"}
RefreshEvents == {e \in issued : e.fn = "generate_access_token"}

\* the token has not reached its expires_at
NotYetExpired(t) == now <= t.tok.claims.exp

\* why verification of a presented token fails, if it does; the claimed
\* token_type plays no part in it
FailureClass(t) ==
    IF IsStr(t) THEN (IF Dots(t.str) = 2 THEN "undecodable" ELSE "not_three_parts")
    ELSE IF t.tok.alg # "HS256" THEN "algorithm"
    ELSE IF ~HasSecret THEN "no_secret"
    ELSE IF t.tok.sig.key # get_jwt_secret.ok \/ t.tok.sig.claims # t.tok.claims
        THEN "signature"
    ELSE IF now - t.tok.claims.exp > 60 THEN "expired"
    ELSE "none"

\* the access tokens and the refresh tokens of the pairs handed out by login
PairAccessTokens == {e.access_token : e \in PairEvents}
PairRefreshTokens == {e.refresh_token.some : e \in PairEvents}

TypedValidators == {"validate_access_token", "validate_refresh_token"}

RequiredType(fn) == IF fn = "validate_access_token" THEN "access" ELSE "refresh"

\* C1: the two tokens of every pair handed out by generate_token_pair are
\* type-separated.  While it has not reached its expires_at the access token
\* is accepted by validate_access_token and the refresh token by
\* validate_refresh_token; the access token is never accepted by
\* validate_refresh_token nor the refresh token by validate_access_token; and
\* whatever token is presented, a typed validator accepts only a token of its
\* own type.
C1_TypeSeparation ==
    /\ (last.op = "validate_access_token" /\ last.token \in PairAccessTokens)
          => (NotYetExpired(last.token) => IsOk(last.result))
    /\ (last.op = "validate_refresh_token" /\ last.token \in PairRefreshTokens)
          => (NotYetExpired(last.token) => IsOk(last.result))
    /\ (last.op = "validate_access_token" /\ last.token \in PairRefreshTokens)
          => ~IsOk(last.result)
    /\ (last.op = "validate_refresh_token" /\ last.token \in PairAccessTokens)
          => ~IsOk(last.result)
    /\ (last.op \in TypedValidators /\ IsOk(last.result))
          => /\ IsTok(last.token)
             /\ last.token.tok.claims.token_type = RequiredType(last.op)
             /\ last.result.ok.token_type = RequiredType(last.op)

\* C1 witness: the refresh token of a login pair was presented to
\* validate_access_token while unexpired and rejected for its type.
C1_Witness ==
    /\ last.op = "validate_access_token"
    /\ \E e \in PairEvents : last.token = e.refresh_token.some
    /\ NotYetExpired(last.token)
    /\ IsErr(last.result)
    /\ last.result.msg = "Invalid token type"

\* what a validator answers to a token that fails verification: decided by
\* the reason of the failure alone (without a signing secret, a panic)
VerificationFailure(class) ==
    IF ~HasSecret THEN Panicked
    ELSE IF class = "expired" THEN Err("Unauthorized", "Token expired")
    ELSE IF class = "not_three_parts" THEN Err("Unauthorized", "Invalid token")
    ELSE Err("Unauthorized", "Token validation failed")

\* C2: in the typed validators the type check runs only after verification.
\* A token that fails verification gets from a typed validator exactly the
\* error of validate_token, never "Invalid token type"; that result is
\* decided by the reason of the failure alone, hence the same for both typed
\* validators and for tokens of either claimed type; "Invalid token type" is
\* the result only for a token that passed verification.
C2_TypeCheckAfterVerification ==
    last.op \in TypedValidators
        => /\ (FailureClass(last.token) # "none")
                 => /\ ~IsOk(last.result)
                    /\ IsErr(last.result) => last.result.msg # "Invalid token type"
                    /\ last.result = validate_token(last.token)
                    /\ last.result = VerificationFailure(FailureClass(last.token))
           /\ (IsErr(last.result) /\ last.result.msg = "Invalid token type")
                 => FailureClass(last.token) = "none"

\* C2 witness: a forged token whose payload claims the type "refresh" was
\* presented to validate_access_token and rejected by verification.
C2_Witness ==
    /\ last.op = "validate_access_token"
    /\ IsTok(last.token)
    /\ last.token.tok.claims.token_type = "refresh"
    /\ FailureClass(last.token) = "signature"
    /\ IsErr(last.result)
    /\ last.result.msg = "Token validation failed"

\* the signature of a token string verifies under the current signing secret
SignatureVerifies(t) ==
    /\ IsTok(t)
    /\ t.tok.alg = "HS256"
    /\ HasSecret
    /\ t.tok.sig.key = get_jwt_secret.ok
    /\ t.tok.sig.claims = t.tok.claims

C3_WitnessRejected ==
    /\ last.op = "validate_token"
    /\ last.token = ForgedRefresh
    /\ IsErr(last.result)

\* The Credential Verifier's ground truth: the registered users and their
\* passwords.
RegisteredUsers == { [email |-> "a@b.com", password |-> "Secure123"] }

CredentialsValid(request) ==
    \E u \in RegisteredUsers : u.email = request.email /\ u.password = request.password

AuthOps == {"login", "refresh", "logout"}

\* a token value occurs in the body of the last response
TokenInBody(resp) == \E f \in DOMAIN resp.body : f \in {"access_token", "refresh_token"}

\* C4: login consults the Credential Verifier before issuing anything: for an
\* unknown email or a wrong password it answers 401 Unauthorized, with one
\* and the same message in both cases, issues no token and sets no cookie.
C4_LoginVerifiesCredentials ==
    (/\ last.op = "login"
     /\ last.ran
     /\ last.body.some.email # "" /\ last.body.some.password # ""
     /\ ~CredentialsValid(last.body.some))
        => /\ last.resp.status = 401
           /\ last.events = {}
           /\ last.resp.set_cookie = <<>>
           /\ ~TokenInBody(last.resp)

\* the CSRF pair of a request: the csrf_token cookie and the X-CSRF-Token
\* header, both readable, non-empty cookie, equal values
CsrfCookieValues(headers) ==
    IF IsNone(headers.cookie) \/ headers.cookie.some = Opaque THEN <<>>
    ELSE SelectSeq(headers.cookie.some.str,
                   LAMBDA c : c.name = "csrf_token" /\ c.value # EmptyString)

CsrfPairMatches(headers) ==
    /\ CsrfCookieValues(headers) # <<>>
    /\ IsSome(headers.x_csrf_token)
    /\ headers.x_csrf_token.some = CsrfCookieValues(headers)[1].value

\* the request is flagged native: X-Client-Type equals "native", any case
FlaggedNative(headers) ==
    /\ IsSome(headers.x_client_type)
    /\ headers.x_client_type.some
          \in {Str(S_native), Str(S_Native), Str(S_NATIVE)}

\* C5: in the assembled router a state-changing request of a non-native
\* client to login, refresh or logout reaches its handler only if its
\* X-CSRF-Token header equals its csrf_token cookie.
C5_RouterEnforcesCsrf ==
    (last.op \in AuthOps /\ ~FlaggedNative(last.headers) /\ last.ran)
        => CsrfPairMatches(last.headers)

\* C6: for a request whose method is not GET/HEAD/OPTIONS and which is not
\* flagged native, csrf_middleware runs the inner service if and only if a
\* non-empty csrf_token cookie is present, an X-CSRF-Token header is present
\* and the two values are equal; otherwise it answers 403 Forbidden and the
\* inner service is not run.  (A header that is not visible ASCII reads as
\* absent.)
C6_CsrfDoubleSubmit ==
    (/\ last.op = "csrf_middleware"
     /\ last.method \notin {"GET", "HEAD", "OPTIONS"}
     /\ ~FlaggedNative(last.headers))
        => /\ last.ran <=> CsrfPairMatches(last.headers)
           /\ last.ran => last.resp = InnerResponse
           /\ ~last.ran => last.resp.status = 403

\* C6 witness: a POST with a csrf_token cookie but no X-CSRF-Token header was
\* answered 403 without running the inner service.
C6_Witness ==
    /\ last.op = "csrf_middleware"
    /\ last.method = "POST"
    /\ IsNone(last.headers.x_client_type)
    /\ CsrfCookieValues(last.headers) # <<>>
    /\ IsNone(last.headers.x_csrf_token)
    /\ last.resp.status = 403
    /\ ~last.ran

\* the token a refresh request presents in its refresh-token slot: the one
\* in the body when there is a body, else the refresh_token cookie
RefreshCookieValues(headers) ==
    IF IsNone(headers.cookie) \/ headers.cookie.some = Opaque THEN <<>>
    ELSE SelectSeq(headers.cookie.some.str,
                   LAMBDA c : c.name = "refresh_token" /\ c.value # EmptyString)

SlotTokens(req) ==
    IF IsSome(req.body) THEN {req.body.some.refresh_token}
    ELSE IF RefreshCookieValues(req.headers) # <<>>
        THEN {RefreshCookieValues(req.headers)[1].value}
    ELSE {}

MintedAccessTokens == {e.access_token : e \in issued}

MintedRefreshTokens == {e.refresh_token.some : e \in PairEvents}

\* C7: a refresh request that presents an access token, issued by login or
\* by an earlier refresh, in the refresh-token slot (body or cookie) is
\* answered 401 Unauthorized and no token is issued.
C7_AccessTokenRefusedByRefresh ==
    (/\ last.op = "refresh"
     /\ last.ran
     /\ SlotTokens(last) \cap MintedAccessTokens # {})
        => /\ last.resp.status = 401
           /\ last.events = {}
           /\ last.resp.set_cookie = <<>>
           /\ ~TokenInBody(last.resp)

\* C7 witness: an unexpired access token minted by an earlier refresh came
\* in the refresh_token cookie and the request was answered 401.
C7_Witness ==
    /\ last.op = "refresh"
    /\ IsNone(last.body)
    /\ \E e \in RefreshEvents :
        /\ SlotTokens(last) = {e.access_token}
        /\ NotYetExpired(e.access_token)
    /\ last.resp.status = 401

\* C8: every token the refresh endpoint accepts was minted by a login.
\* Refresh mints only Access-typed tokens and hands out no refresh token;
\* validate_refresh_token accepts no presented token other than a
\* login-minted refresh token; and a refresh succeeds only on such a token,
\* while it is still valid.
C8_RefreshOnlyMintsAccess ==
    /\ \A e \in RefreshEvents :
        /\ e.access_token.tok.claims.token_type = "access"
        /\ IsNone(e.refresh_token)
    /\ (last.op = "validate_refresh_token" /\ IsOk(last.result))
          => last.token \in MintedRefreshTokens
    /\ (last.op = "refresh" /\ last.resp.status = 200)
          => /\ SlotTokens(last) \subseteq MintedRefreshTokens
             /\ SlotTokens(last) # {}
             /\ \A t \in SlotTokens(last) : now - t.tok.claims.exp <= 60
             /\ \A e \in last.events :
                    /\ e.fn = "generate_access_token"
                    /\ e.access_token.tok.claims.token_type = "access"

\* C8 witness: a refresh succeeded on a login-minted refresh token and the
\* token it minted is in the wild.
C8_Witness ==
    /\ last.op = "refresh"
    /\ last.resp.status = 200
    /\ last.events # {}
    /\ last.events \subseteq issued

\* C9: a successful refresh re-issues only an access token: the response
\* body has no refresh_token field and holds no refresh token, and no
\* Set-Cookie of the response is for the refresh_token cookie.
C9_RefreshLeavesRefreshToken ==
    (last.op = "refresh" /\ last.resp.status = 200)
        => /\ "refresh_token" \notin DOMAIN last.resp.body
           /\ ("access_token" \in DOMAIN last.resp.body)
                 => last.resp.body.access_token.tok.claims.token_type = "access"
           /\ \A i \in DOMAIN last.resp.set_cookie :
                /\ last.resp.set_cookie[i].name # "refresh_token"
                /\ last.resp.set_cookie[i].value.tok.claims.token_type = "access"

\* C9 witness: a web client's refresh succeeded and set a cookie
C9_Witness ==
    /\ last.op = "refresh"
    /\ last.resp.status = 200
    /\ ~FlaggedNative(last.headers)
    /\ Len(last.resp.set_cookie) = 1

\* C10: logout does not invalidate tokens.  Once a logout has been served,
\* every minted token that has not reached its expires_at is accepted by
\* validate_token, and a refresh presenting a login-minted refresh token that
\* has not reached its expires_at succeeds and mints a new access token.
C10_LogoutKeepsTokensValid ==
    logged_out
        => /\ (/\ last.op = "validate_token"
               /\ last.token \in Minted
               /\ NotYetExpired(last.token)) => IsOk(last.result)
           /\ (/\ last.op = "refresh"
               /\ last.ran
               /\ SlotTokens(last) \cap MintedRefreshTokens # {}
               /\ \A t \in SlotTokens(last) : NotYetExpired(t))
                  => /\ last.resp.status = 200
                     /\ \E e \in last.events :
                            IsOk(validate_access_token(e.access_token))

\* C10 witness: after a logout, a refresh on the login's refresh token
\* succeeded.
C10_Witness ==
    /\ logged_out
    /\ last.op = "refresh"
    /\ last.resp.status = 200
    /\ last.events # {}

----------------------------------------------------------------------------
(* Properties of the login and logout responses *)

\* the names of the cookies a response sets
SetCookieNames(resp) == {resp.set_cookie[i].name : i \in DOMAIN resp.set_cookie}

\* C11: a successful login of a non-native client sets exactly two
\* Set-Cookie headers, access_token and refresh_token; its body has
\* expires_in = 900 and no token field.
C11_WebLoginSetsTwoCookies ==
    (last.op = "login" /\ last.resp.status = 200 /\ ~FlaggedNative(last.headers))
        => /\ Len(last.resp.set_cookie) = 2
           /\ SetCookieNames(last.resp) = {"access_token", "refresh_token"}
           /\ last.resp.body.expires_in = 900
           /\ ~TokenInBody(last.resp)

\* C12: a successful login of a native client returns, in the body, the
\* non-empty access token and refresh token that were minted for it and
\* expires_in = 900, and sets no Set-Cookie header.
C12_NativeLoginTokensInBody ==
    (last.op = "login" /\ last.resp.status = 200 /\ FlaggedNative(last.headers))
        => /\ {"access_token", "refresh_token", "expires_in"} \subseteq DOMAIN last.resp.body
           /\ last.resp.body.access_token # EmptyString
           /\ last.resp.body.refresh_token # EmptyString
           /\ \E e \in last.events :
                /\ e.access_token = last.resp.body.access_token
                /\ e.refresh_token = Some(last.resp.body.refresh_token)
           /\ last.resp.body.access_token.tok.claims.token_type = "access"
           /\ last.resp.body.refresh_token.tok.claims.token_type = "refresh"
           /\ last.resp.body.expires_in = 900
           /\ last.resp.set_cookie = <<>>

\* C12 witness: a login with X-Client-Type: NATIVE was answered 200
C12_Witness ==
    /\ last.op = "login"
    /\ last.headers.x_client_type = Some(Str(S_NATIVE))
    /\ last.resp.status = 200
    /\ last.events # {}

\* the response sets the named cookie to the empty value with Max-Age=0
ClearsCookie(resp, name) ==
    \E i \in DOMAIN resp.set_cookie :
        /\ resp.set_cookie[i].name = name
        /\ resp.set_cookie[i].value = EmptyString
        /\ resp.set_cookie[i].MaxAge = 0

\* C13: logout answers 200 to every request, and its response sets both
\* the access_token and the refresh_token cookie to the empty value with
\* Max-Age=0.
C13_LogoutClearsBothCookies ==
    last.op = "logout"
        => /\ last.resp.status = 200
           /\ ClearsCookie(last.resp, "access_token")
           /\ ClearsCookie(last.resp, "refresh_token")

\* C14: a login with an empty email or an empty password is answered 400
\* Bad Request: no token is minted, no Set-Cookie header is set and the
\* body has no token field.
C14_EmptyLoginRejected ==
    (/\ last.op = "login"
     /\ last.ran
     /\ (last.body.some.email = "" \/ last.body.some.password = ""))
        => /\ last.resp.status = 400
           /\ last.events = {}
           /\ last.resp.set_cookie = <<>>
           /\ ~TokenInBody(last.resp)
           /\ "expires_in" \notin DOMAIN last.resp.body

\* C14 witness: a login with an email and an empty password was answered 400
C14_Witness ==
    /\ last.op = "login"
    /\ last.body.some.email # ""
    /\ last.body.some.password = ""
    /\ last.resp.status = 400

----------------------------------------------------------------------------
(* Properties of the refresh endpoint's token extraction and rejections *)

\* the response is the 'token required' rejection
IsRequiredResponse(resp) ==
    /\ resp.status = 401
    /\ "message" \in DOMAIN resp.body
    /\ resp.body.message = "Refresh token required"

\* the request body carries no non-empty refresh token
BodyTokenMissing(req) == IsNone(req.body) \/ req.body.some.refresh_token = EmptyString

\* the request carries no refresh_token cookie with a non-empty value
CookieTokenMissing(req) == RefreshCookieValues(req.headers) = <<>>

\* C15 as stated: refresh answers 'token required' if and only if the
\* refresh token is missing or empty on both channels, the body and the
\* refresh_token cookie.
C15_AsStated ==
    (last.op = "refresh" /\ last.ran)
        => (IsRequiredResponse(last.resp)
                <=> (BodyTokenMissing(last) /\ CookieTokenMissing(last)))

\* C15 amended: refresh answers 'token required' if and only if the channel
\* it reads, the body when a body is present and the refresh_token cookie
\* otherwise, carries no non-empty token; in every other case it goes on to
\* validate that channel's token and answers by the outcome of
\* validate_refresh_token on it.
C15_RequiredIffSlotEmpty ==
    (last.op = "refresh" /\ last.ran)
        => /\ IsRequiredResponse(last.resp) <=> (SlotTokens(last) \subseteq {EmptyString})
           /\ \A t \in SlotTokens(last) \ {EmptyString} :
                LET validated == validate_refresh_token(t) IN
                /\ IsPanic(validated) => last.resp = NoResponse
                /\ IsErr(validated)
                      => /\ last.resp.status = 401
                         /\ last.resp.body.message = "Invalid or expired refresh token"
                /\ IsOk(validated) => last.resp.status = 200

\* C15 witness: the body's token was empty, the refresh_token cookie held
\* the login's unexpired refresh token, and the answer was 'token required'
C15_Witness ==
    /\ last.op = "refresh"
    /\ IsSome(last.body)
    /\ last.body.some.refresh_token = EmptyString
    /\ \E e \in PairEvents :
        /\ RefreshCookieValues(last.headers) # <<>>
        /\ RefreshCookieValues(last.headers)[1].value = e.refresh_token.some
        /\ NotYetExpired(e.refresh_token.some)
    /\ IsRequiredResponse(last.resp)

\* C16: refresh takes its token body-first.  With a body present the outcome
\* is decided by the body's token alone, whatever refresh_token cookie is
\* attached, and a minted access token carries that token's identity; the
\* cookie decides only when there is no body.
C16_BodyFirst ==
    (last.op = "refresh" /\ last.ran /\ HasSecret)
        => /\ IsSome(last.body)
                => /\ last.resp.status = 200
                        <=> IsOk(validate_refresh_token(last.body.some.refresh_token))
                   /\ \A e \in last.events :
                        /\ e.access_token.tok.claims.sub
                              = last.body.some.refresh_token.tok.claims.sub
                        /\ e.access_token.tok.claims.email
                              = last.body.some.refresh_token.tok.claims.email
           /\ IsNone(last.body)
                => (last.resp.status = 200
                        <=> /\ ~CookieTokenMissing(last)
                            /\ IsOk(validate_refresh_token(
                                        RefreshCookieValues(last.headers)[1].value)))

\* C16 witness: the body held an access token, the cookie the login's
\* unexpired refresh token, and the request was answered 401
C16_Witness ==
    /\ last.op = "refresh"
    /\ IsSome(last.body)
    /\ last.body.some.refresh_token \in MintedAccessTokens
    /\ \E e \in PairEvents :
        /\ RefreshCookieValues(last.headers) # <<>>
        /\ RefreshCookieValues(last.headers)[1].value = e.refresh_token.some
        /\ NotYetExpired(e.refresh_token.some)
    /\ last.resp.status = 401

\* C16 second witness state: a valid body token with a forged cookie was
\* answered 200
C16_WitnessBodyWins ==
    /\ last.op = "refresh"
    /\ IsSome(last.body)
    /\ RefreshCookieValues(last.headers) # <<>>
    /\ RefreshCookieValues(last.headers)[1].value = ForgedRefresh
    /\ last.resp.status = 200

\* why refresh rejects a presented non-empty token, if it does
RejectReason(t) ==
    IF FailureClass(t) # "none" THEN FailureClass(t)
    ELSE IF t.tok.claims.token_type # "refresh" THEN "wrong_type"
    ELSE "none"

\* C17: the response of refresh to a rejected token is one and the same,
\* 401 with the message "Invalid or expired refresh token" and nothing else,
\* whether the token is expired, has an invalid signature, has the wrong
\* type or is otherwise unverifiable.
C17_RefreshRejectionsIndistinguishable ==
    (last.op = "refresh" /\ last.ran /\ HasSecret)
        => \A t \in SlotTokens(last) \ {EmptyString} :
              RejectReason(t) # "none"
                  => /\ last.resp
                            = [status |-> 401,
                               body |-> [success |-> FALSE,
                                         message |-> "Invalid or expired refresh token"],
                               set_cookie |-> <<>>]
                     /\ last.events = {}

\* C17 witness: the login's refresh token, expired, was rejected
C17_Witness ==
    /\ last.op = "refresh"
    /\ \E t \in SlotTokens(last) :
        /\ t \in MintedRefreshTokens
        /\ RejectReason(t) = "expired"
    /\ last.resp.status = 401

\* C17 further witness states: rejections for signature and for type
C17_WitnessSignature ==
    /\ last.op = "refresh"
    /\ \E t \in SlotTokens(last) \ {EmptyString} : RejectReason(t) = "signature"
    /\ last.resp.status = 401

C17_WitnessType ==
    /\ last.op = "refresh"
    /\ \E t \in SlotTokens(last) \ {EmptyString} : RejectReason(t) = "wrong_type"
    /\ last.resp.status = 401

----------------------------------------------------------------------------
(* Properties of header inspection *)

\* the request has an Authorization header of the form "Bearer <token>"
HasBearer(headers) ==
    /\ IsSome(headers.authorization)
    /\ headers.authorization.some # Opaque
    /\ Len(headers.authorization.some.str) >= 7
    /\ SubSeq(headers.authorization.some.str, 1, 7) = <<66, 101, 97, 114, 101, 114, 32>>

\* what follows "Bearer " in the Authorization header
BearerToken(headers) ==
    Str(SubSeq(headers.authorization.some.str, 8, Len(headers.authorization.some.str)))

\* the access_token cookies of a request that have a non-empty value
AccessCookieValues(headers) ==
    IF IsNone(headers.cookie) \/ headers.cookie.some = Opaque THEN <<>>
    ELSE SelectSeq(headers.cookie.some.str,
                   LAMBDA c : c.name = "access_token" /\ c.value # EmptyString)

\* C18: extract_token_from_request gives the bearer header priority.  With
\* an Authorization header of the form "Bearer <token>" the result is the
\* header's token, whatever the access_token cookie; the access_token cookie
\* is used only without such a header.
C18_BearerPriority ==
    last.op = "extract_token_from_request"
        => /\ HasBearer(last.headers) => last.result = Some(BearerToken(last.headers))
           /\ ~HasBearer(last.headers)
                 => last.result = IF AccessCookieValues(last.headers) # <<>>
                                      THEN Some(AccessCookieValues(last.headers)[1].value)
                                  ELSE None

\* C18 witness: a request with "Bearer h" and the cookie access_token=c
\* gave the token "h"
C18_Witness ==
    /\ last.op = "extract_token_from_request"
    /\ HasBearer(last.headers)
    /\ AccessCookieValues(last.headers) # <<>>
    /\ last.result = Some(Str(<<104>>))
    /\ AccessCookieValues(last.headers)[1].value # Str(<<104>>)

\* the header value reads "native", letter case ignored
ReadsNative(ct) ==
    /\ IsSome(ct)
    /\ ct.some # Opaque
    /\ Len(ct.some.str) = 6
    /\ \A i \in 1..6 :
          ct.some.str[i] \in {<<110, 97, 116, 105, 118, 101>>[i],
                              <<78, 65, 84, 73, 86, 69>>[i]}

\* C19: login, refresh and the CSRF middleware classify every request
\* identically: native exactly when X-Client-Type is present and reads
\* "native" case-insensitively, web otherwise.
C19_OneClientTypePredicate ==
    last.op = "client_type"
        => /\ last.login = ReadsNative(last.headers.x_client_type)
           /\ last.refresh = ReadsNative(last.headers.x_client_type)
           /\ last.csrf = ReadsNative(last.headers.x_client_type)

\* C19 witness: X-Client-Type: nAtIvE was classified native by all three
C19_Witness ==
    /\ last.op = "client_type"
    /\ last.headers.x_client_type = Some(Str(<<110, 65, 116, 73, 118, 69>>))
    /\ last.login /\ last.refresh /\ last.csrf

\* C19 second witness state: "native " with a trailing space is web for all
C19_WitnessWeb ==
    /\ last.op = "client_type"
    /\ last.headers.x_client_type = Some(Str(<<110, 97, 116, 105, 118, 101, 32>>))
    /\ ~last.login /\ ~last.refresh /\ ~last.csrf

\* C20: csrf_middleware runs the inner service for every GET, HEAD and
\* OPTIONS request, whatever its csrf_token cookie, X-CSRF-Token header and
\* X-Client-Type header.
C20_SafeMethodsProceed ==
    (last.op = "csrf_middleware" /\ last.method \in {"GET", "HEAD", "OPTIONS"})
        => /\ last.ran
           /\ last.resp = InnerResponse

\* C20 witness: an OPTIONS request of a web client with a csrf_token cookie
\* and a different X-CSRF-Token header ran the inner service
C20_Witness ==
    /\ last.op = "csrf_middleware"
    /\ last.method = "OPTIONS"
    /\ ~FlaggedNative(last.headers)
    /\ CsrfCookieValues(last.headers) # <<>>
    /\ IsSome(last.headers.x_csrf_token)
    /\ ~CsrfPairMatches(last.headers)
    /\ last.ran

\* C20 second witness state: a GET with no CSRF cookie or header at all
C20_WitnessBare ==
    /\ last.op = "csrf_middleware"
    /\ last.method = "GET"
    /\ last.headers = NoHeaders
    /\ last.ran

\* C21: csrf_middleware runs the inner service for every state-changing
\* request whose X-Client-Type reads "native" (letter case ignored),
\* whatever its csrf_token cookie and X-CSRF-Token header; every other
\* state-changing request reaches the inner service only with a matching
\* CSRF pair.
C21_NativeExemptOnly ==
    (last.op = "csrf_middleware" /\ last.method \notin {"GET", "HEAD", "OPTIONS"})
        => IF ReadsNative(last.headers.x_client_type)
           THEN last.ran /\ last.resp = InnerResponse
           ELSE last.ran <=> CsrfPairMatches(last.headers)

\* C21 witness: a DELETE flagged Native with a csrf_token cookie and a
\* different X-CSRF-Token header ran the inner service
C21_Witness ==
    /\ last.op = "csrf_middleware"
    /\ last.method = "DELETE"
    /\ last.headers.x_client_type = Some(Str(S_Native))
    /\ CsrfCookieValues(last.headers) # <<>>
    /\ IsSome(last.headers.x_csrf_token)
    /\ ~CsrfPairMatches(last.headers)
    /\ last.ran

\* C21 second witness state: a POST with X-Client-Type: web and no CSRF
\* pair was answered 403
C21_WitnessWeb ==
    /\ last.op = "csrf_middleware"
    /\ last.method = "POST"
    /\ last.headers.x_client_type = Some(Str(S_web))
    /\ CsrfCookieValues(last.headers) = <<>>
    /\ ~last.ran
    /\ last.resp.status = 403

\* C22: constant_time_eq(a, b) is true if and only if a and b are the same
\* byte string: false for different lengths, false for equal lengths with a
\* differing byte at any position, true for equal strings, the empty ones
\* included.
C22_ConstantTimeEqIsEquality ==
    last.op = "constant_time_eq"
        => /\ last.result <=> (last.a = last.b)
           /\ Len(last.a) # Len(last.b) => ~last.result
           /\ (\E i \in 1..Len(last.a) :
                    i <= Len(last.b) /\ last.a[i] # last.b[i]) => ~last.result

\* C22 witness: "ab" and "bb", equal in length and in their last byte,
\* compared unequal
C22_Witness ==
    /\ last.op = "constant_time_eq"
    /\ last.a = <<97, 98>>
    /\ last.b = <<98, 98>>
    /\ ~last.result

\* C22 second witness state: two empty strings compared equal
C22_WitnessEmpty ==
    /\ last.op = "constant_time_eq"
    /\ last.a = <<>>
    /\ last.b = <<>>
    /\ last.result

\* C22 third witness state: "a" and "ab", one a prefix of the other,
\* compared unequal
C22_WitnessPrefix ==
    /\ last.op = "constant_time_eq"
    /\ last.a = <<97>>
    /\ last.b = <<97, 98>>
    /\ ~last.result

\* the lifetime a token of this type is issued with, in seconds
Lifetime(t) ==
    IF t.tok.claims.token_type = "access"
    THEN DurationMinutes(ACCESS_TOKEN_DURATION_MINUTES)
    ELSE DurationDays(REFRESH_TOKEN_DURATION_DAYS)

\* C23 as stated: validate_token rejects an issued token at every validation
\* time strictly later than its expires_at, so an access token is never
\* accepted more than 900 seconds, and a refresh token never more than
\* 604800 seconds, after it was issued.
C23_AsStated ==
    (last.op = "validate_token" /\ HasSecret /\ last.token \in Minted)
        => /\ now > last.token.tok.claims.exp => IsErr(last.result)
           /\ IsOk(last.result) => now - last.token.tok.claims.iat <= Lifetime(last.token)

\* C23 amended: expiry has a tolerance window of 60 seconds: validate_token
\* accepts an issued token at every validation time up to expires_at + 60
\* and rejects it as expired at every later time, so an access token is
\* never accepted more than 960 seconds, and a refresh token never more than
\* 604860 seconds, after it was issued.
C23_ExpiryWithLeeway ==
    (last.op = "validate_token" /\ HasSecret /\ last.token \in Minted)
        => /\ IsOk(last.result) <=> now <= last.token.tok.claims.exp + 60
           /\ IsOk(last.result)
                => now - last.token.tok.claims.iat <= Lifetime(last.token) + 60
           /\ ~IsOk(last.result)
                => last.result = Err("Unauthorized", "Token expired")

\* C23 witness: an access token was accepted 960 seconds after it was issued
C23_Witness ==
    /\ last.op = "validate_token"
    /\ last.token \in Minted
    /\ last.token.tok.claims.token_type = "access"
    /\ now = last.token.tok.claims.iat + 960
    /\ IsOk(last.result)

\* C23 second witness state: an access token was rejected as expired 961
\* seconds after it was issued
C23_WitnessRejected ==
    /\ last.op = "validate_token"
    /\ last.token \in Minted
    /\ last.token.tok.claims.token_type = "access"
    /\ now = last.token.tok.claims.iat + 961
    /\ last.result = Err("Unauthorized", "Token expired")

\* C23 third witness state: a refresh token was accepted 604860 seconds
\* after it was issued
C23_WitnessRefresh ==
    /\ last.op = "validate_token"
    /\ last.token \in Minted
    /\ last.token.tok.claims.token_type = "refresh"
    /\ now = last.token.tok.claims.iat + 604860
    /\ IsOk(last.result)

\* the calls of the issuing functions
IssueOps == {"generate_token_pair", "generate_access_token"}

\* the token strings a successful issuing call returned
TokensOf(call) ==
    IF call.op = "generate_token_pair"
    THEN {call.result.ok.access_token, call.result.ok.refresh_token}
    ELSE {call.result.ok}

\* the claims of a token apart from its token_id
ClaimsApartFromId(t) == [t.tok.claims EXCEPT !.jti = 0]

\* C24: no token string returned by generate_token_pair or
\* generate_access_token equals a token string issued before, also for the
\* same (user_id, email) at the same issue time, and the two tokens of one
\* pair differ.
C24_TokenFreshness ==
    (last.op \in IssueOps /\ IsOk(last.result))
        => /\ TokensOf(last) \cap last.before = {}
           /\ last.op = "generate_token_pair"
                => last.result.ok.access_token # last.result.ok.refresh_token

\* C24 witness: generate_access_token returned a token for the same user,
\* email and second as an access token issued before, and the two differ
\* only in their token_id
C24_Witness ==
    /\ last.op = "generate_access_token"
    /\ IsOk(last.result)
    /\ \E t \in last.before :
        /\ ClaimsApartFromId(t) = ClaimsApartFromId(last.result.ok)
        /\ t # last.result.ok

\* C24 second witness state: a token pair was issued after other tokens
C24_WitnessPair ==
    /\ last.op = "generate_token_pair"
    /\ IsOk(last.result)
    /\ last.before # {}

\* ds is the decimal notation of n: digits only, no leading zero
IsDecimalOf(ds, n) ==
    /\ Len(ds) >= 1
    /\ \A i \in 1..Len(ds) : ds[i] \in 0..9
    /\ Len(ds) > 1 => ds[1] # 0
    /\ ParseI64(ds) = Ok(n)

\* C30: the claims of every token the engine creates have
\* expires_at > issued_at, with expires_at - issued_at = 900 seconds for an
\* access token and 604800 seconds for a refresh token, and their subject is
\* the decimal string of the user_id passed in.
C30_ClaimsWellFormed ==
    (last.op \in IssueOps /\ IsOk(last.result))
        => \A t \in TokensOf(last) :
            LET c == t.tok.claims IN
            /\ c.exp > c.iat
            /\ c.token_type \in {"access", "refresh"}
            /\ c.token_type = "access" => c.exp - c.iat = 900
            /\ c.token_type = "refresh" => c.exp - c.iat = 604800
            /\ IsDecimalOf(c.sub, last.user_id)

\* C30 witness: a pair issued for user 1205 after the clock had advanced
\* carries the subject "1205" in both tokens
C30_Witness ==
    /\ last.op = "generate_token_pair"
    /\ IsOk(last.result)
    /\ last.user_id = 1205
    /\ now > 0
    /\ last.result.ok.access_token.tok.claims.sub = <<1, 2, 0, 5>>
    /\ last.result.ok.refresh_token.tok.claims.sub = <<1, 2, 0, 5>>
    /\ last.result.ok.refresh_token.tok.claims.exp = now + 604800

\* a production run: ENVIRONMENT is "production" or "prod", in any letter case
ProductionRun ==
    ENVIRONMENT \in {Some(S_production), Some(S_Production), Some(S_prod)}

\* C25: in a production run (ENVIRONMENT production or prod) the process
\* never gets to serve when JWT_SECRET is unset, no token it hands out is
\* signed with the development fallback secret, and no token signed with
\* that secret is accepted by validation.
C25_ProductionNeedsSecret ==
    ProductionRun
        => /\ IsNone(JWT_SECRET) => ~Serving
           /\ last.op = "login"
                => \A e \in last.events :
                      /\ e.access_token.tok.sig.key # DEV_SECRET
                      /\ e.refresh_token.some.tok.sig.key # DEV_SECRET
           /\ (last.op \in Validators /\ last.token.tok.sig.key = DEV_SECRET)
                => ~IsOk(last.result)

\* C25 witness: a debug build started with ENVIRONMENT=Production and
\* without JWT_SECRET has exited with code 1
C25_Witness ==
    /\ ENVIRONMENT = Some(S_Production)
    /\ IsNone(JWT_SECRET)
    /\ debug_assertions
    /\ last = Exited(1)

\* C25 second witness state: a production run with JWT_SECRET set refused a
\* refresh token signed with the development secret
C25_WitnessRefused ==
    /\ ProductionRun
    /\ IsSome(JWT_SECRET)
    /\ last.op = "validate_refresh_token"
    /\ last.token = DevSigned("refresh")
    /\ IsErr(last.result)

\* C25 third witness state: a production run with JWT_SECRET set served a
\* login and signed the pair with the configured secret
C25_WitnessServing ==
    /\ ProductionRun
    /\ last.op = "login"
    /\ \E e \in last.events : e.access_token.tok.sig.key = JWT_SECRET.some

\* C26: every cookie built by build_auth_cookie or build_refresh_cookie,
\* for issuing and for clearing, is HttpOnly and SameSite=Lax; the
\* access_token cookie has Path=/ and, when issued, Max-Age=900; the
\* refresh_token cookie has Path=/api/v1/auth and, when issued,
\* Max-Age=604800; and Secure is present exactly when ENVIRONMENT says
\* production.
C26_AuthCookieAttributes ==
    last.op \in CookieBuilders
        => /\ last.cookie.HttpOnly
           /\ last.cookie.SameSite = "Lax"
           /\ last.cookie.value = last.token
           /\ last.op = "build_auth_cookie"
                => /\ last.cookie.name = "access_token"
                   /\ last.cookie.Path = "/"
                   /\ ~last.clear => last.cookie.MaxAge = 900
           /\ last.op = "build_refresh_cookie"
                => /\ last.cookie.name = "refresh_token"
                   /\ last.cookie.Path = "/api/v1/auth"
                   /\ ~last.clear => last.cookie.MaxAge = 604800
           /\ last.cookie.Secure <=> ProductionRun

\* C26 witness: with ENVIRONMENT=Production the refresh cookie was built
\* for clearing, with Secure, HttpOnly and the auth path
C26_Witness ==
    /\ last.op = "build_refresh_cookie"
    /\ ENVIRONMENT = Some(S_Production)
    /\ last.clear
    /\ last.token = EmptyString
    /\ last.cookie.Secure
    /\ last.cookie.HttpOnly
    /\ last.cookie.Path = "/api/v1/auth"

\* C26 second witness state: with ENVIRONMENT=staging the access cookie was
\* issued with Max-Age=900 and without Secure
C26_WitnessIssued ==
    /\ last.op = "build_auth_cookie"
    /\ ENVIRONMENT = Some(S_staging)
    /\ ~last.clear
    /\ last.cookie.MaxAge = 900
    /\ ~last.cookie.Secure

\* the characters 0-9 and a-f
HexChars == (48..57) \cup (97..102)

HasLetter(password) ==
    \E i \in DOMAIN password :
        \/ password[i] \in 65..90
        \/ password[i] \in 97..122
        \/ password[i] = 233
HasDigit(password) == \E i \in DOMAIN password : password[i] \in 48..57

\* C28: hash_password accepts exactly the passwords of 8 to 128 characters
\* that contain at least one letter and at least one digit; every other
\* password is rejected with BadRequest and no hash is produced.
C28_PasswordPolicy ==
    last.op = "hash_password"
        => /\ IsOk(last.result)
                <=> /\ Len(last.password) >= 8
                    /\ Len(last.password) <= 128
                    /\ HasLetter(last.password)
                    /\ HasDigit(last.password)
           /\ ~IsOk(last.result)
                => (IsErr(last.result) /\ last.result.err = "BadRequest")

\* the stored string is malformed: not a PHC string, or not one an Argon2
\* hash can have (another algorithm, unusable parameters)
MalformedHash(h) ==
    \/ IsStr(h)
    \/ h.phc.alg \notin {"argon2d", "argon2i", "argon2id"}
    \/ h.phc.params.m < 8

\* C29: for the hash h that hash_password produced for a policy-valid
\* password p, verify_password(p, h) is Ok(true) and verify_password(q, h)
\* is Ok(false) for every q other than p; verify_password returns an error
\* only for a malformed stored hash.
C29_VerifyMatchesHash ==
    last.op = "verify_password"
        => /\ IsSome(last.hashed)
                => last.result = Ok(last.password = last.hashed.some)
           /\ IsErr(last.result) => MalformedHash(last.hash)

\* C29 witness: "secure123" against the hash of "Secure123" gave Ok(false)
C29_Witness ==
    /\ last.op = "verify_password"
    /\ last.hashed = Some(P_Secure123)
    /\ last.password = <<115, 101, 99, 117, 114, 101, 49, 50, 51>>
    /\ last.result = Ok(FALSE)

\* C29 second witness state: the password that was hashed gave Ok(true)
C29_WitnessMatch ==
    /\ last.op = "verify_password"
    /\ last.hashed = Some(P_Password123)
    /\ last.password = P_Password123
    /\ last.result = Ok(TRUE)

\* C29 third witness state: the stored string "abc" gave an error
C29_WitnessMalformed ==
    /\ last.op = "verify_password"
    /\ last.hash = Str(<<97, 98, 99>>)
    /\ last.result = Err("InternalError", "Password verification failed")

\* C31: the readiness probe reports the database state faithfully: without
\* a pool it answers 200 ready/disabled when the database is not required
\* and 503 not_ready/missing when it is; with a pool it answers 200 ready/ok
\* exactly when the probe query succeeds and 503 not_ready/down when the
\* probe fails or its blocking task panics; the liveness probe always
\* answers 200 ok.
C31_ProbesFaithful ==
    /\ last.op = "live" => last.resp = Response(200, [status |-> "ok"], <<>>)
    /\ last.op = "ready" =>
        /\ (IsNone(db_pool) /\ ~database_required) =>
              (last.resp.status = 200
               /\ last.resp.body = [status |-> "ready", database |-> "disabled"])
        /\ (IsNone(db_pool) /\ database_required) =>
              (last.resp.status = 503
               /\ last.resp.body = [status |-> "not_ready", database |-> "missing"])
        /\ (IsSome(db_pool) /\ last.condition = "up") =>
              (last.resp.status = 200
               /\ last.resp.body = [status |-> "ready", database |-> "ok"])
        /\ (IsSome(db_pool) /\ last.condition # "up") =>
              (last.resp.status = 503
               /\ last.resp.body = [status |-> "not_ready", database |-> "down"])

C31_Witness ==
    last.op = "ready" /\ IsSome(db_pool) /\ last.condition = "panic"
    /\ last.resp.status = 503

C31_WitnessMissing ==
    last.op = "ready" /\ IsNone(db_pool) /\ database_required
    /\ last.resp.body.database = "missing"

C31_WitnessLive == last.op = "live" /\ last.resp.status = 200

\* the refresh token that a refresh request presented
PresentedRefreshToken(req) == RefreshTokenOf(req.headers, req.body).some

\* C32: the access token minted by a successful refresh carries the same
\* subject and the same email as the refresh token that was presented.
C32_RefreshKeepsIdentity ==
    (last.op = "refresh" /\ last.resp.status = 200) =>
        /\ last.events # {}
        /\ \A e \in last.events :
            /\ e.access_token.tok.claims.sub
                   = PresentedRefreshToken(last).tok.claims.sub
            /\ e.access_token.tok.claims.email
                   = PresentedRefreshToken(last).tok.claims.email

\* C32 witness: a refresh token of user 1205 has been exchanged for an
\* access token
C32_Witness ==
    /\ last.op = "refresh"
    /\ last.resp.status = 200
    /\ PresentedRefreshToken(last).tok.claims.sub = Digits(1205)
    /\ \E e \in last.events : e.access_token.tok.claims.email = "eve@x.org"

\* whether the headers carry a non-empty token: after the prefix "Bearer "
\* of the Authorization header, or in an access_token cookie
CarriesToken(headers) ==
    \/ (IsSome(BearerOf(headers)) /\ BearerOf(headers).some # <<>>)
    \/ (IsSome(AccessCookieOf(headers)) /\ AccessCookieOf(headers).some # EmptyString)

\* C33: extract_token_from_request returns None whenever neither the bearer
\* header nor the access_token cookie carries a non-empty token, and it
\* never returns the empty string as a token.
C33_NoneWhenNoToken ==
    last.op = "extract_token_from_request" =>
        /\ ~CarriesToken(last.headers) => last.result = None
        /\ last.result # Some(EmptyString)

\* the tokens of a set of issuance events
EventTokens(events) ==
    {e.access_token : e \in events}
        \cup {e.refresh_token.some : e \in {x \in events : IsSome(x.refresh_token)}}

C34_WitnessLogout ==
    last.op = "logout" /\ last.ran /\ \E t \in Minted : IsOk(validate_token(t))

RepositoryOps ==
    {"get_user_by_id", "create_user", "update_user", "delete_user", "get_user_by_email"}

\* a repository call whose blocking closure was run and panicked
ClosurePanicked ==
    /\ last.op \in RepositoryOps
    /\ last.fault \in {"panic", "panic_late"}
    /\ ~(IsErr(last.result) /\ last.result.err = "BadRequest")

\* C35: a panic inside the spawned blocking work of a repository function
\* comes back as the ApiError::InternalError result of that one call and
\* not as a panic of the caller.
C35_PanicBecomesInternalError ==
    ClosurePanicked =>
        /\ IsErr(last.result)
        /\ last.result.err = "InternalError"
        /\ ~IsPanic(last.result)

\* C35 witness: the closure of get_user_by_id panicked
C35_Witness ==
    /\ ClosurePanicked
    /\ last.op = "get_user_by_id"
    /\ last.result = Err("InternalError", "Database query panicked")

\* C35 witness: the closure of create_user panicked while other users are
\* in the table
C35_WitnessCreate ==
    /\ ClosurePanicked
    /\ last.op = "create_user"
    /\ last.result = Err("InternalError", "Database insert panicked")
    /\ users_table # <<>>

\* an UpdateUserRequest that the validation and the table's unique emails
\* let through for the user
Applicable(data, id) ==
    IsNone(data.email)
        \/ (is_valid(data.email.some) /\ ~EmailTaken(users_table, data.email.some, id))

\* C37: update_user returns NotFound exactly when no user row with the given
\* id exists; for an existing user it returns the user's current record for
\* every UpdateUserRequest, including one with neither email nor name.
C37_UpdateUser ==
    (last.op = "update_user" /\ last.fault = "none"
        /\ Applicable(last.args.data, last.args.user_id)) =>
        /\ (IsErr(last.result) /\ last.result.err = "NotFound")
                <=> last.args.user_id \notin DOMAIN users_table
        /\ last.args.user_id \in DOMAIN users_table
                => last.result = Ok(users_table[last.args.user_id])

\* update_user as the code has it: NotFound also for an existing user when
\* the request provides no field
C37_NotFoundWhenNothingToUpdate ==
    (last.op = "update_user" /\ last.fault = "none"
        /\ Applicable(last.args.data, last.args.user_id)) =>
        LET nothing == IsNone(last.args.data.email) /\ IsNone(last.args.data.name) IN
        /\ (IsErr(last.result) /\ last.result.err = "NotFound")
                <=> (last.args.user_id \notin DOMAIN users_table \/ nothing)
        /\ (last.args.user_id \in DOMAIN users_table /\ ~nothing)
                => last.result = Ok(users_table[last.args.user_id])

C37_WitnessEmpty ==
    /\ last.op = "update_user"
    /\ last.fault = "none"
    /\ last.args.user_id \in DOMAIN users_table
    /\ IsNone(last.args.data.email) /\ IsNone(last.args.data.name)
    /\ IsErr(last.result)

\* the rows that are soft-deleted
Inactive(table) == {k \in DOMAIN table : ~table[k].is_active}

\* what the repository answers about soft-deleted users
SoftDeleteAnswers ==
    /\ (last.op = "delete_user" /\ IsOk(last.result)) =>
            /\ last.args.user_id \in DOMAIN users_table
            /\ ~users_table[last.args.user_id].is_active
    /\ (last.op = "delete_user" /\ last.fault = "none"
            /\ last.args.user_id \in DOMAIN users_table) => IsOk(last.result)
    /\ (last.op = "delete_user" /\ IsErr(last.result) /\ last.result.err = "NotFound")
            => last.args.user_id \notin DOMAIN users_table
    /\ (last.op = "get_user_by_email" /\ last.fault = "none"
            /\ \E k \in Inactive(users_table) : users_table[k].email = last.args.email)
            => last.result = Err("NotFound", "User not found")
    /\ (last.op = "get_user_by_id" /\ last.fault = "none"
            /\ last.args.user_id \in Inactive(users_table))
            => last.result = Ok(users_table[last.args.user_id])

\* C38: delete_user is a soft delete: once delete_user(id) has succeeded the
\* row stays in the table with is_active = false in every later state,
\* get_user_by_email for its email answers NotFound, get_user_by_id(id)
\* still returns the row, a repeated delete_user(id) succeeds, and
\* delete_user answers NotFound only when there is no row with the id.
C38_SoftDelete ==
    /\ []SoftDeleteAnswers
    /\ [][/\ DOMAIN users_table \subseteq DOMAIN users_table'
          /\ Inactive(users_table) \subseteq Inactive(users_table')]_vars

\* C38 witness: delete_user succeeds again on a user that was already
\* soft-deleted, whose email and name were updated in between
C38_Witness ==
    /\ last.op = "delete_user"
    /\ IsOk(last.result)
    /\ Len(users_table) = MaxUsers
    /\ users_table[last.args.user_id].name = "Bob"
    /\ Inactive(users_table) = DOMAIN users_table

C38_WitnessByEmail ==
    /\ last.op = "get_user_by_email"
    /\ last.fault = "none"
    /\ \E k \in Inactive(users_table) : users_table[k].email = last.args.email
    /\ last.result = Err("NotFound", "User not found")

C38_WitnessById ==
    /\ last.op = "get_user_by_id"
    /\ IsOk(last.result)
    /\ ~last.result.ok.is_active

\* the access_token cookies that a response issues
IssuedAccessCookies(resp) ==
    {resp.set_cookie[i] : i \in
        {k \in DOMAIN resp.set_cookie :
            /\ resp.set_cookie[k].name = "access_token"
            /\ resp.set_cookie[k].value # EmptyString}}

\* C36: the access-token lifetime is the same everywhere: the expires_in of
\* a login response, the expires_in of a refresh response, the Max-Age of an
\* issued access_token cookie and expires_at - issued_at of every access
\* token are all 900 seconds.
C36_OneAccessLifetime ==
    /\ (last.op \in {"login", "refresh"} /\ last.resp.status = 200) =>
            /\ last.resp.body.expires_in = 900
            /\ \A c \in IssuedAccessCookies(last.resp) : c.MaxAge = 900
    /\ \A e \in issued :
            e.access_token.tok.claims.exp - e.access_token.tok.claims.iat = 900

\* C36 witness: a browser's refresh was answered with expires_in 900 and an
\* access_token cookie of Max-Age 900 holding a token that lives 900 seconds
C36_Witness ==
    /\ last.op = "refresh"
    /\ last.resp.status = 200
    /\ last.resp.body.expires_in = 900
    /\ \E c \in IssuedAccessCookies(last.resp) :
        /\ c.MaxAge = 900
        /\ c.value.tok.claims.exp - c.value.tok.claims.iat = 900

\* C36 witness: a native login was answered with expires_in 900
C36_WitnessLogin ==
    /\ last.op = "login"
    /\ last.resp.status = 200
    /\ last.resp.body.expires_in = 900
    /\ "access_token" \in DOMAIN last.resp.body
    /\ last.resp.body.access_token.tok.claims.exp = now + 900

====
